---------------------------- MODULE Spec2Model ----------------------------
(***************************************************************************)
(* A model of JsonSerial (jsonserial.hpp, jsonimpl.hpp, jsonclasses.hpp):  *)
(* the tokenizer readLine, the writer (writeValue / writeObject /          *)
(* writeMembers / writeArray), the reader (readValue / readObject /        *)
(* readArray) and the engine state that reset() clears, driven the way     *)
(* tests/tests.cpp and examples/contact_special_cases.cpp drive them.      *)
(*                                                                         *)
(* A stream is a sequence of characters; a character is a one-character    *)
(* string ("NUL", "SOH" and "BS" stand for the bytes 0, 1 and 8, "xFF" for *)
(* the byte that (char)EOF gives).  A std::string is a character sequence. *)
(***************************************************************************)
EXTENDS Integers, Sequences, FiniteSets, TLC

(***************************************************************************)
(* Bounds of the model.                                                    *)
(***************************************************************************)
\* heap objects of class A or B that a written graph holds
MaxObjs == 2
\* length of the list member "kids"
MaxKids == 2
\* nesting depth at which the model stops a write that would never end
MaxLevel == 6

(***************************************************************************)
(* Characters (<cctype>, classic locale).                                  *)
(***************************************************************************)
Digits == <<"0", "1", "2", "3", "4", "5", "6", "7", "8", "9">>

isdigit(c) == \E i \in 1..10 : Digits[i] = c

DigitVal(c) == (CHOOSE i \in 1..10 : Digits[i] = c) - 1

isspace(c) == c \in {" ", "\t", "\n", "\r", "\f"}

iscntrl(c) == c \in {"\t", "\n", "\r", "\f", "BS", "NUL", "SOH"}

\* operator<<(unsigned long): decimal digits, no leading zero
RECURSIVE ULongToString(_)
ULongToString(n) ==
    IF n < 10 THEN <<Digits[n + 1]>>
    ELSE ULongToString(n \div 10) \o <<Digits[(n % 10) + 1]>>

\* the digits of s from index i on that are digits in this base, as a number
RECURSIVE DigitsFrom(_, _, _, _)
DigitsFrom(s, i, base, acc) ==
    IF i <= Len(s) /\ isdigit(s[i]) /\ DigitVal(s[i]) < base
    THEN DigitsFrom(s, i + 1, base, acc * base + DigitVal(s[i]))
    ELSE [val |-> acc, next |-> i]

RECURSIVE SkipSpace(_, _)
SkipSpace(s, i) == IF i <= Len(s) /\ isspace(s[i]) THEN SkipSpace(s, i + 1) ELSE i

\* std::stoul(value): leading whitespace, an optional sign, decimal digits;
\* what follows the digits is ignored; no digit at all throws
\* std::invalid_argument (ok = FALSE).  A minus sign negates modulo 2^64 and
\* is left out of the documents the model reads.
stoul(s) ==
    LET i == SkipSpace(s, 1)
        j == IF i <= Len(s) /\ s[i] = "+" THEN i + 1 ELSE i
        d == DigitsFrom(s, j, 10, 0)
    IN  [ok |-> d.next > j, val |-> d.val]

\* std::strtoul(p, nullptr, 0): base 16 after 0x, base 8 after a leading 0,
\* base 10 otherwise; 0 when nothing converts
strtoul0(s) ==
    LET i == SkipSpace(s, 1)
        j == IF i <= Len(s) /\ s[i] = "+" THEN i + 1 ELSE i
    IN  IF j <= Len(s) /\ s[j] = "0"
        THEN DigitsFrom(s, j + 1, 8, 0).val
        ELSE DigitsFrom(s, j, 10, 0).val

Tail1(s) == IF s = <<>> THEN <<>> ELSE Tail(s)

\* std::stoi(s): leading whitespace, an optional sign, decimal digits; what
\* follows the digits is ignored; no digit at all throws
\* std::invalid_argument (ok = FALSE), a value outside int throws
\* std::out_of_range (range = FALSE)
stoi(s) ==
    LET i == SkipSpace(s, 1)
        j == IF i <= Len(s) /\ s[i] \in {"+", "-"} THEN i + 1 ELSE i
        d == DigitsFrom(s, j, 10, 0)
        v == IF j > i /\ s[i] = "-" THEN 0 - d.val ELSE d.val
    IN  [ok |-> d.next > j, val |-> v, range |-> v <= 2147483647 /\ v >= 0 - 2147483647 - 1]

\* operator<<(int): decimal digits after the sign
IntToString(n) == IF n < 0 THEN <<"-">> \o ULongToString(0 - n) ELSE ULongToString(n)

(***************************************************************************)
(* Names that appear in the streams.                                       *)
(***************************************************************************)
n_type == <<"t", "y", "p", "e">>
n_number == <<"n", "u", "m", "b", "e", "r">>
n_extra == <<"e", "x", "t", "r", "a">>
n_class == <<"@", "c", "l", "a", "s", "s">>
n_id == <<"@", "i", "d">>
s_null == <<"n", "u", "l", "l">>
s_true == <<"t", "r", "u", "e">>
s_false == <<"f", "a", "l", "s", "e">>
s_home == <<"h", "o", "m", "e">>
s_212 == <<"2", "1", "2">>
LBrace == <<"{">>
RBrace == <<"}">>
LBracket == <<"[">>
RBracket == <<"]">>


(***************************************************************************)
(* JsonSerial::Syntax (a mask of bits).                                    *)
(***************************************************************************)
Strict == 0
Comments == 1
NoQuotes == 2
NoCommas == 4
Newlines == 8
Relaxed == 15

Allows(allow, bit) == (allow \div bit) % 2 = 1

(***************************************************************************)
(* The tokenizer: JsonSerial::readLine and its helpers.                    *)
(***************************************************************************)
\* JsonSerial::isNumber, looking at token[i..]
RECURSIVE isNumberFrom(_, _, _, _)
isNumberFrom(token, i, dotfound, expfound) ==
    IF i > Len(token) THEN TRUE
    ELSE IF isdigit(token[i]) THEN isNumberFrom(token, i + 1, dotfound, expfound)
    ELSE IF token[i] = "." THEN
        IF dotfound THEN FALSE ELSE isNumberFrom(token, i + 1, TRUE, expfound)
    ELSE IF token[i] \in {"e", "E"} THEN
        IF expfound THEN FALSE
        ELSE IF i + 1 <= Len(token) /\ token[i + 1] \in {"+", "-"}
             THEN isNumberFrom(token, i + 2, dotfound, TRUE)
             ELSE isNumberFrom(token, i + 1, dotfound, TRUE)
    ELSE FALSE

isNumber(token) ==
    IF token = <<>> THEN FALSE
    ELSE isNumberFrom(token, IF token[1] = "-" THEN 2 ELSE 1, FALSE, FALSE)

\* the trimRight of checkValue: a token of whitespace only is left as it is
RECURSIVE LastNonSpace(_, _)
LastNonSpace(token, i) ==
    IF i >= 1 /\ isspace(token[i]) THEN LastNonSpace(token, i - 1) ELSE i

trimRight(token) ==
    LET e == LastNonSpace(token, Len(token))
    IN  IF token # <<>> /\ e >= 1 THEN SubSeq(token, 1, e) ELSE token

s_quoted == <<" ", "(", "s", "h", "o", "u", "l", "d", " ", "b", "e", " ",
              "q", "u", "o", "t", "e", "d", "?", ")">>

\* JsonSerial::checkValue: the trimmed token and the error it raises, if any
checkValue(token, objName, allow) ==
    LET tk == trimRight(token)
        first == IF tk = <<>> THEN "NUL" ELSE tk[1]
    IN  IF objName THEN
            IF Allows(allow, NoQuotes) \/ first = "}" \/ first = "]"
            THEN [token |-> tk, err |-> "OK", arg |-> <<>>]
            ELSE [token |-> tk, err |-> "ExpectingString", arg |-> tk]
        ELSE IF Allows(allow, NoQuotes) \/ tk = <<>> \/ first = "}" \/ first = "]"
                \/ tk = s_true \/ tk = s_false \/ tk = s_null \/ isNumber(tk)
            THEN [token |-> tk, err |-> "OK", arg |-> <<>>]
            ELSE [token |-> tk, err |-> "InvalidValue", arg |-> tk \o s_quoted]

\* in_->peek(): the next character, "EOF" at the end of the stream
peek(inp, t) == IF t.pos < Len(inp) THEN inp[t.pos + 1] ELSE "EOF"

\* the stream after in_->peek(): peeking at the end sets eofbit
peeked(inp, t) == IF t.pos < Len(inp) THEN t ELSE [t EXCEPT !.good = FALSE]

\* the stream after a successful in_->get(c)
got(t) == [t EXCEPT !.pos = @ + 1]

\* in_->putback(c)
putback(t) == [t EXCEPT !.pos = @ - 1]

\* the character JsonSerial::readEscape appends
escapeChar(c) ==
    CASE c = "b" -> "BS"
      [] c = "f" -> "\f"
      [] c = "n" -> "\n"
      [] c = "r" -> "\r"
      [] c = "t" -> "\t"
      [] c = "EOF" -> "xFF"
      [] OTHER -> c

\* JsonSerial::readEscape on the token field f ("t1" is token1_, "t2" token2_)
readEscape(inp, t, f) ==
    LET c == peek(inp, t)
        u == IF c = "EOF" THEN [t EXCEPT !.good = FALSE] ELSE got(t)
    IN  IF f = "t1" THEN [u EXCEPT !.t1 = Append(@, escapeChar(c))]
        ELSE [u EXCEPT !.t2 = Append(@, escapeChar(c))]

fail(t, type, arg) == [t EXCEPT !.done = TRUE, !.err = type, !.arg = arg]

\* token1 = token1_; checkValue(token1, inObj)
setToken1(t, inObj, allow) ==
    LET r == checkValue(t.t1, inObj, allow)
    IN  [t EXCEPT !.token1 = r.token, !.err = r.err, !.arg = r.arg,
                  !.done = @ \/ r.err # "OK"]

\* token2 = token2_; checkValue(token2, false)
setToken2(t, allow) ==
    LET r == checkValue(t.t2, FALSE, allow)
    IN  [t EXCEPT !.token2 = r.token, !.err = r.err, !.arg = r.arg,
                  !.done = @ \/ r.err # "OK"]

isSeparator(c, allow) == c = "," \/ (Allows(allow, NoCommas) /\ c = "\n")

\* the test that opens the switch of readLine: a comment starts or goes on
commentCheck(inp, t, c, allow) ==
    IF ~(Allows(allow, Comments) /\ t.part \notin {"InQuotedToken1", "InQuotedToken2"})
       \/ c # "/"
    THEN [t |-> t, c |-> c]
    ELSE LET p == peek(inp, t)
             u == peeked(inp, t)
         IN  IF t.part # "Comment" /\ p = "/" THEN
                 [t |-> IF t.part # "LineComment"
                        THEN [u EXCEPT !.lastPart = t.part, !.part = "LineComment"]
                        ELSE u,
                  c |-> c]
             ELSE IF t.part # "LineComment" /\ p = "*" /\ t.part # "Comment" THEN
                 [t |-> [got(u) EXCEPT !.lastPart = t.part, !.part = "Comment"],
                  c |-> "*"]
             ELSE [t |-> u, c |-> c]

\* one character c through the switch of readLine
readLineSwitch(inp, t, c, inObj, allow) ==
    CASE t.part = "Begin" ->
            IF c = "\"" THEN [t EXCEPT !.found1 = TRUE, !.part = "InQuotedToken1"]
            ELSE IF c \in {"{", "["}
                THEN [t EXCEPT !.found1 = TRUE, !.token1 = <<c>>, !.done = TRUE]
            ELSE IF ~isspace(c)
                THEN [t EXCEPT !.found1 = TRUE, !.t1 = Append(@, c),
                               !.part = "InUnquotedToken1"]
            ELSE t
      [] t.part = "InQuotedToken1" ->
            IF c = "\"" THEN [t EXCEPT !.token1 = t.t1, !.part = "AfterToken1"]
            ELSE IF c = "\\" THEN readEscape(inp, t, "t1")
            ELSE IF iscntrl(c) /\ (~Allows(allow, Newlines) \/ ~isspace(c))
                THEN fail(t, "InvalidCharacter", <<c>>)
            ELSE [t EXCEPT !.t1 = Append(@, c)]
      [] t.part = "InUnquotedToken1" ->
            IF isSeparator(c, allow)
                THEN [setToken1(t, inObj, allow) EXCEPT !.done = TRUE]
            ELSE IF c \in {"}", "]"}
                THEN [setToken1(putback(t), inObj, allow) EXCEPT !.done = TRUE]
            ELSE IF c = ":" /\ inObj
                THEN [setToken1(t, inObj, allow) EXCEPT !.part = "AfterComa"]
            ELSE IF c = "\\" THEN readEscape(inp, t, "t1")
            ELSE [t EXCEPT !.t1 = Append(@, c)]
      [] t.part = "AfterToken1" ->
            IF isSeparator(c, allow) THEN [t EXCEPT !.done = TRUE]
            ELSE IF c \in {"}", "]"} THEN [putback(t) EXCEPT !.done = TRUE]
            ELSE IF c = ":" /\ inObj THEN [t EXCEPT !.part = "AfterComa"]
            ELSE IF ~isspace(c) THEN fail(t, "ExpectingComma", <<>>)
            ELSE t
      [] t.part = "AfterComa" ->
            IF c = "\"" THEN
                LET a == [peeked(inp, t) EXCEPT !.found2 = TRUE]
                IN  IF peek(inp, t) # "\"" THEN [a EXCEPT !.part = "InQuotedToken2"]
                    ELSE LET b == got(a)
                         IN  IF peek(inp, b) # "\""
                             THEN [peeked(inp, b) EXCEPT !.token2 = <<>>,
                                                         !.part = "AfterToken2"]
                             ELSE [got(b) EXCEPT !.part = "InQuotedToken2",
                                                 !.multi = TRUE]
            ELSE IF c \in {"{", "["}
                THEN [t EXCEPT !.found2 = TRUE, !.token2 = <<c>>, !.done = TRUE]
            ELSE IF ~isspace(c)
                THEN [t EXCEPT !.found2 = TRUE, !.t2 = Append(@, c),
                               !.part = "InUnquotedToken2"]
            ELSE t
      [] t.part = "InQuotedToken2" ->
            IF c = "\"" THEN
                IF ~t.multi THEN [t EXCEPT !.token2 = t.t2, !.part = "AfterToken2"]
                ELSE IF peek(inp, t) # "\""
                    THEN [peeked(inp, t) EXCEPT !.t2 = Append(@, "\"")]
                ELSE LET b == got(t)
                     IN  IF peek(inp, b) # "\""
                         THEN [peeked(inp, b) EXCEPT !.t2 = @ \o <<"\"", "\"">>]
                         ELSE [got(b) EXCEPT !.token2 = t.t2, !.part = "AfterToken2",
                                             !.multi = FALSE]
            ELSE IF t.multi /\ isspace(c) THEN [t EXCEPT !.t2 = Append(@, c)]
            ELSE IF c = "\\" THEN readEscape(inp, t, "t2")
            ELSE IF iscntrl(c) /\ (~Allows(allow, Newlines) \/ ~isspace(c))
                THEN fail(t, "InvalidCharacter", <<c>>)
            ELSE [t EXCEPT !.t2 = Append(@, c)]
      [] t.part = "InUnquotedToken2" ->
            IF isSeparator(c, allow) THEN [setToken2(t, allow) EXCEPT !.done = TRUE]
            ELSE IF c \in {"}", "]"}
                THEN [setToken2(putback(t), allow) EXCEPT !.done = TRUE]
            ELSE IF c = "\\" THEN readEscape(inp, t, "t2")
            ELSE [t EXCEPT !.t2 = Append(@, c)]
      [] t.part = "AfterToken2" ->
            IF isSeparator(c, allow) THEN [t EXCEPT !.done = TRUE]
            ELSE IF c \in {"}", "]"} THEN [putback(t) EXCEPT !.done = TRUE]
            ELSE IF ~isspace(c) THEN fail(t, "ExpectingDelimiter", <<>>)
            ELSE t
      [] t.part = "LineComment" ->
            IF Allows(allow, Comments) /\ c = "\n" THEN [t EXCEPT !.part = t.lastPart]
            ELSE t
      [] t.part = "Comment" ->
            IF Allows(allow, Comments) /\ c = "*" /\ peek(inp, t) = "/"
                THEN [got(t) EXCEPT !.part = t.lastPart]
            ELSE IF c = "*" THEN peeked(inp, t)
            ELSE t

\* the while (true) loop of readLine
RECURSIVE readLineLoop(_, _, _, _)
readLineLoop(inp, t, inObj, allow) ==
    IF t.done THEN t
    ELSE IF t.pos >= Len(inp) THEN
        LET e == [t EXCEPT !.good = FALSE]
        IN  IF e.t1 # <<>> THEN [setToken1(e, inObj, allow) EXCEPT !.done = TRUE]
            ELSE [e EXCEPT !.done = TRUE]
    ELSE
        LET c == inp[t.pos + 1]
            a == got(t)
        IN  IF c = "\n"
            THEN readLineLoop(inp,
                    readLineSwitch(inp, [a EXCEPT !.lineno = @ + 1], c, inObj, allow),
                    inObj, allow)
            ELSE IF iscntrl(c) /\ ~isspace(c) THEN fail(a, "InvalidCharacter", <<c>>)
            ELSE LET k == commentCheck(inp, a, c, allow)
                 IN  readLineLoop(inp, readLineSwitch(inp, k.t, k.c, inObj, allow),
                                  inObj, allow)

\* JsonSerial::readLine on the stream inp of an engine whose stream state is
\* [pos, good, lineno, multi]: the tokens, the flags, the stream state after
\* the call and the fatal error raised, if any (err # "OK")
readLine(inp, s, inObj, allow) ==
    readLineLoop(inp,
        [part |-> "Begin", lastPart |-> "Begin", pos |-> s.pos, good |-> s.good,
         lineno |-> s.lineno, multi |-> s.multi,
         token1 |-> <<>>, token2 |-> <<>>, t1 |-> <<>>, t2 |-> <<>>,
         found1 |-> FALSE, found2 |-> FALSE,
         done |-> FALSE, err |-> "OK", arg |-> <<>>],
        inObj, allow)


(***************************************************************************)
(* The registry (JsonClasses) that the model serializes with.  It follows  *)
(* the classes of tests/tests.cpp and of the examples: P is Phone          *)
(* (type, number); A is a polymorphic class with a string and a raw        *)
(* pointer to A; B extends A; N has a string, a pointer to a string and a  *)
(* char, like Note and Contact::sex; H is a plain struct whose first data  *)
(* member is an A held by value, followed by a std::list<A*> and an A*     *)
(* declared with a creator, like Contact::phonenumbers3.                   *)
(*                                                                         *)
(* A member: its name, its kind (which Member subclass and which           *)
(* readValue / writeValue overload serve it), the registered class of the  *)
(* pointee or of the embedded object, and for the object held by value     *)
(* whether it is the first data member of a class without vptr, so that    *)
(* its address is the address of the object that holds it.                 *)
(***************************************************************************)
c_A == <<"A">>
c_B == <<"B">>
c_H == <<"H">>
c_N == <<"N">>
c_P == <<"P">>
c_F == <<"F">>
c_D == <<"D">>
c_S == <<"S">>
c_Q == <<"Q">>
c_E == <<"E">>
NoClass == <<>>

n_x == <<"x">>
n_y == <<"y">>
n_next == <<"n", "e", "x", "t">>
n_inner == <<"i", "n">>
n_kids == <<"k", "i", "d", "s">>
n_made == <<"m", "a", "d", "e">>
n_name1 == <<"n", "a", "m", "e", "1">>
n_name2 == <<"n", "a", "m", "e", "2">>
n_sex == <<"s", "e", "x">>
n_image == <<"i", "m", "a", "g", "e">>
n_z == <<"z">>
n_num == <<"n", "u", "m">>
n_isalive == <<"i", "s", "a", "l", "i", "v", "e">>

Member(name, kind, cls, atOffset0) ==
    [name |-> name, kind |-> kind, cls |-> cls, atOffset0 |-> atOffset0]

\* classnames_ after the constructor of the registry has run; creator is
\* whether the class has a constructor thunk (ObjectClass::creator_)
classnames_ ==
    (c_P :> [supers |-> <<>>, creator |-> TRUE,
             members |-> <<Member(n_type, "string", NoClass, FALSE),
                           Member(n_number, "string", NoClass, FALSE)>>]) @@
    (c_A :> [supers |-> <<>>, creator |-> TRUE,
             members |-> <<Member(n_x, "string", NoClass, FALSE),
                           Member(n_next, "ptr", c_A, FALSE)>>]) @@
    (c_B :> [supers |-> <<c_A>>, creator |-> TRUE,
             members |-> <<Member(n_y, "string", NoClass, FALSE)>>]) @@
    (c_N :> [supers |-> <<>>, creator |-> TRUE,
             members |-> <<Member(n_name1, "string", NoClass, FALSE),
                           Member(n_name2, "stringptr", NoClass, FALSE),
                           Member(n_sex, "char", NoClass, FALSE)>>]) @@
    (c_H :> [supers |-> <<>>, creator |-> TRUE,
             members |-> <<Member(n_inner, "object", c_A, TRUE),
                           Member(n_kids, "list", c_A, FALSE),
                           Member(n_made, "ptrcr", c_A, FALSE)>>]) @@
    (c_F :> [supers |-> <<>>, creator |-> FALSE,
             members |-> <<Member(n_image, "string", NoClass, FALSE)>>]) @@
    (c_D :> [supers |-> <<c_B, c_F>>, creator |-> TRUE,
             members |-> <<Member(n_z, "string", NoClass, FALSE)>>]) @@
    (c_S :> [supers |-> <<>>, creator |-> TRUE,
             members |-> <<Member(n_num, "int", NoClass, FALSE),
                           Member(n_isalive, "bool", NoClass, FALSE)>>]) @@
    (c_Q :> [supers |-> <<>>, creator |-> TRUE,
             members |-> <<Member(n_type, "string", NoClass, FALSE)>>]) @@
    (c_E :> [supers |-> <<>>, creator |-> TRUE, members |-> <<>>])

\* what the constructor thunk of a class returns: an object of the class,
\* or nothing (NoClass) for the thunk of Q, which returns nullptr
thunkMakes(cls) == IF cls = c_Q THEN NoClass ELSE cls

\* the class that the creator of a member declared with one builds:
\* [](H&) {return new A();}
creatorMakes(m) == m.cls

\* JsonClasses::getClass(const std::string&): NoClass is the null pointer
getClass(classname) == IF classname \in DOMAIN classnames_ THEN classname ELSE NoClass

\* JsonClasses::getClass(const std::type_info&): a C++ type is named by the
\* name it is registered under
getClassOfType(type) == IF type \in DOMAIN classnames_ THEN type ELSE NoClass

(***************************************************************************)
(* Values and the heap.  The heap is a sequence of objects; a pointer is   *)
(* an index into it, 0 the null pointer.  An object has its C++ type, its  *)
(* fields by member name, and its address: an object held by value at      *)
(* offset 0 has the address of its holder.                                 *)
(***************************************************************************)
StringV(s) == [k |-> "string", s |-> s, p |-> 0, l |-> <<>>]
CharV(c) == [k |-> "char", s |-> <<c>>, p |-> 0, l |-> <<>>]
\* a std::string*: p = 0 is the null pointer, p = 1 a pointer to the string s
StringPtrV(p, s) == [k |-> "stringptr", s |-> s, p |-> p, l |-> <<>>]
PtrV(p) == [k |-> "ptr", s |-> <<>>, p |-> p, l |-> <<>>]
ObjectV(p) == [k |-> "object", s |-> <<>>, p |-> p, l |-> <<>>]
ListV(l) == [k |-> "list", s |-> <<>>, p |-> 0, l |-> l]
\* a std::list<std::string>: l holds the strings
StringsV(l) == [k |-> "strings", s |-> <<>>, p |-> 0, l |-> l]
\* a std::shared_ptr<A>: the object it points to (0: none) and the control
\* block that counts its owners (0: none)
Handle(obj, ctl) == [obj |-> obj, ctl |-> ctl]
NoHandle == Handle(0, 0)
\* where a std::shared_ptr is stored: the i-th element of the storage
\* number buf of its container
Addr(buf, i) == [buf |-> buf, i |-> i]
\* a std::vector, std::list or std::set (k) of std::shared_ptr<A>: l holds
\* the handles, a vector has its capacity cap and the number buf of the
\* storage it has allocated last, nctl control blocks have been made, and
\* pointers_ is the table of the JsonArrayImpl that reads the container
SharedV(k) ==
    [k |-> k, s |-> <<>>, p |-> 0, l |-> <<>>, buf |-> 0, cap |-> 0, nctl |-> 0,
     pointers_ |-> <<>>]
SharedKinds == {"vector", "list", "set"}
\* an int holds p; a bool holds p = 1 for true and p = 0 for false
IntV(n) == [k |-> "int", s |-> <<>>, p |-> n, l |-> <<>>]
BoolV(b) == [k |-> "bool", s |-> <<>>, p |-> IF b THEN 1 ELSE 0, l |-> <<>>]

\* all members of a class, inherited ones first (the order of writeMembers)
RECURSIVE allMembers(_)
RECURSIVE allMembersOf(_, _)
allMembersOf(supers, i) ==
    IF i > Len(supers) THEN <<>>
    ELSE allMembers(supers[i]) \o allMembersOf(supers, i + 1)

\* the members of a class with its own members before the inherited ones
allMembers_ownFirst(cls) ==
    classnames_[cls].members \o allMembersOf(classnames_[cls].supers, 1)

allMembers(cls) == allMembersOf(classnames_[cls].supers, 1) \o classnames_[cls].members

\* what a default constructor leaves in a member; an embedded object is
\* built by construct
defaultValue(m) ==
    CASE m.kind = "string" -> StringV(<<>>)
      [] m.kind = "char" -> CharV("U")
      [] m.kind = "stringptr" -> StringPtrV(0, <<>>)
      [] m.kind = "list" -> ListV(<<>>)
      [] m.kind = "int" -> IntV(1)
      [] m.kind = "bool" -> BoolV(TRUE)
      [] OTHER -> PtrV(0)

\* new T(): the heap with a default-constructed T appended (and, after it,
\* the objects it holds by value), at address addr
RECURSIVE construct(_, _, _)
RECURSIVE constructMembers(_, _, _, _)
constructMembers(heap0, key, ms, i) ==
    IF i > Len(ms) THEN heap0
    ELSE IF ms[i].kind # "object" THEN constructMembers(heap0, key, ms, i + 1)
    ELSE LET sub == Len(heap0) + 1
             h1 == construct(heap0, ms[i].cls,
                             IF ms[i].atOffset0 THEN heap0[key].addr ELSE sub)
             h2 == [h1 EXCEPT ![key].f[ms[i].name] = ObjectV(sub)]
         IN  constructMembers(h2, key, ms, i + 1)

construct(heap0, cls, addr) ==
    LET key == Len(heap0) + 1
        ms == allMembers(cls)
        obj == [cls |-> cls, addr |-> addr,
                f |-> [n \in {ms[i].name : i \in 1..Len(ms)} |->
                        defaultValue(CHOOSE m \in {ms[i] : i \in 1..Len(ms)} : m.name = n)]]
    IN  constructMembers(Append(heap0, obj), key, ms, 1)


(***************************************************************************)
(* The engine (class JsonSerial).  A machine is the engine js together     *)
(* with the stack of the calls of writeObject / writeArray (or readObject  *)
(* / readArray) that are open, the heap, the pointer the top-level read    *)
(* fills in, and the history log of what the engine did.                   *)
(***************************************************************************)
NoError == [type |-> "OK", fatal |-> FALSE, where |-> "", arg |-> <<>>]
EmptyMap == [x \in {} |-> 0]

\* the members of a JsonSerial after its constructor
JsonSerialNew ==
    [sharing_ |-> FALSE, allow_ |-> Comments, indent_ |-> 2, tabchar_ |-> " ",
     level_ |-> 0, needcomma_ |-> FALSE, in_multiquotes_ |-> FALSE, lineno_ |-> 0,
     tabs_ |-> 0, current_object_id_ |-> 0,
     object_to_id_ |-> EmptyMap, id_to_object_ |-> EmptyMap,
     shared_ |-> EmptyMap, init_ |-> EmptyMap,
     jsonerror_ |-> NoError,
     in_ |-> <<>>, reading |-> FALSE, pos |-> 0, good |-> TRUE, out_ |-> <<>>]

\* a reset that keeps the tables of identities, the counter and the
\* pending triple quote
reset_keepsTables(js, lineno, reading, inp) ==
    [js EXCEPT !.in_ = inp, !.reading = reading, !.pos = 0, !.good = TRUE,
               !.out_ = <<>>, !.lineno_ = lineno, !.needcomma_ = FALSE,
               !.level_ = 0, !.tabs_ = 40, !.jsonerror_ = NoError]

\* JsonSerial::reset; inp is the content of the input stream, reading is
\* in_ != nullptr, tabs_ is the length of the indentation buffer; an
\* ObjectPtr of id_to_object_ is kept as three maps, id_to_object_ for its
\* raw_, shared_ (absent: nullptr) and init_
reset(js, lineno, reading, inp) ==
    [js EXCEPT !.in_ = inp, !.reading = reading, !.pos = 0, !.good = TRUE,
               !.out_ = <<>>, !.lineno_ = lineno, !.needcomma_ = FALSE,
               !.level_ = 0, !.in_multiquotes_ = FALSE, !.tabs_ = 40,
               !.object_to_id_ = EmptyMap, !.id_to_object_ = EmptyMap,
               !.shared_ = EmptyMap, !.init_ = EmptyMap,
               !.current_object_id_ = 0, !.jsonerror_ = NoError]

Event(e, key, id, s) == [e |-> e, key |-> key, id |-> id, s |-> s]

\* JsonSerial::error: the error is recorded in jsonerror_, handed to the
\* handler (the log), and thrown if fatal
error(m, type, arg, fatal) ==
    [m EXCEPT !.js.jsonerror_ =
                  [type |-> type, fatal |-> fatal,
                   where |-> IF m.js.reading THEN "read" ELSE "write", arg |-> arg],
              !.log = Append(@, Event("error", IF fatal THEN 1 ELSE 0, 0, type)),
              !.thrown = IF fatal THEN "JsonError" ELSE @]

emit(js, chars) == [js EXCEPT !.out_ = @ \o chars]

addTab(js) ==
    LET l == js.level_ + 1
    IN  [js EXCEPT !.level_ = l,
                   !.tabs_ = IF l * js.indent_ >= @ THEN @ + 20 ELSE @]

removeTab(js) == [js EXCEPT !.level_ = IF @ - 1 < 0 THEN 0 ELSE @ - 1]

\* a byte that out_->write reads past the end of tabs_: what the memory
\* holds there is chosen when the step is taken
PastEnd == "past the end"

\* tabs_ holds js.tabs_ copies of tabchar_ (assign in reset, resize in
\* addTab); write(tabs_.data(), level_ * indent_) reads on past its end
writeTabs(js) ==
    emit(js, [i \in 1..(js.level_ * js.indent_) |->
                 IF i <= js.tabs_ THEN js.tabchar_ ELSE PastEnd])

\* what writeString puts for one character of the string
putChar(c) ==
    CASE c = "\"" -> <<"\\", "\"">>
      [] c = "\\" -> <<"\\", "\\">>
      [] c = "BS" -> <<"\\", "b">>
      [] c = "\f" -> <<"\\", "f">>
      [] c = "\n" -> <<"\\", "n">>
      [] c = "\r" -> <<"\\", "r">>
      [] c = "\t" -> <<"\\", "t">>
      [] OTHER -> <<c>>

RECURSIVE putChars(_, _)
putChars(s, i) == IF i > Len(s) THEN <<>> ELSE putChar(s[i]) \o putChars(s, i + 1)

\* JsonSerial::writeString of a non-null string
writeString(js, s) ==
    [emit(js, <<"\"">> \o putChars(s, 1) \o <<"\"">>) EXCEPT !.needcomma_ = TRUE]

\* JsonSerial::writeValue(char)
writeChar(js, c) == [emit(js, <<"\"", c, "\"">>) EXCEPT !.needcomma_ = TRUE]

\* an open call of writeObject (its writeMembers loop is at ms[i]) or of
\* writeArray (its loop is at items[i]); cls is the static class of the
\* items, NoClass when they are strings
WObject(key, ms) == [k |-> "object", key |-> key, ms |-> ms, items |-> <<>>, cls |-> NoClass, i |-> 1]
WArray(items, cls) == [k |-> "array", key |-> 0, ms |-> <<>>, items |-> items, cls |-> cls, i |-> 1]

\* a writeObject that neither looks the object up in object_to_id_ nor
\* records it there
writeObject_unrecorded(m, cl, is_derived_class, key) ==
    LET js0 == m.js
        id == js0.current_object_id_ + 1
        js2 == addTab(emit([js0 EXCEPT !.needcomma_ = FALSE, !.current_object_id_ = id], <<"{", "\n">>))
    IN  [m EXCEPT !.js = js2,
                  !.stack = Append(@, WObject(key, allMembers(cl))),
                  !.log = Append(@, Event("brace", key, id, cl))]

\* JsonSerial::writeObject up to the call of writeMembers
writeObject(m, cl, is_derived_class, key) ==
    LET js == m.js
        obj == m.heap[key].addr
        id == js.current_object_id_ + 1
        idstr == ULongToString(id)
    IN  IF js.sharing_ /\ obj \in DOMAIN js.object_to_id_
        THEN [m EXCEPT !.js = emit(js, <<"\"", "@">> \o ULongToString(js.object_to_id_[obj]) \o <<"\"">>),
                       !.log = Append(@, Event("ref", key, js.object_to_id_[obj], <<>>))]
        ELSE LET js1 == IF js.sharing_
                        THEN [js EXCEPT !.current_object_id_ = id,
                                        !.object_to_id_ = (obj :> id) @@ @]
                        ELSE js
                 js2 == addTab(emit([js1 EXCEPT !.needcomma_ = FALSE], <<"{", "\n">>))
                 js3 == IF is_derived_class
                        THEN emit(writeTabs(js2), <<"\"">> \o n_class \o <<"\"", ":", " ", "\"">>
                                                  \o cl \o <<"\"", ",", "\n">>)
                        ELSE js2
                 js4 == IF js.sharing_
                        THEN emit(writeTabs(js3), <<"\"">> \o n_id \o <<"\"", ":", " ", "\"">>
                                                  \o idstr \o <<"\"", ",", "\n">>)
                        ELSE js3
             IN  [m EXCEPT !.js = js4,
                           !.stack = Append(@, WObject(key, allMembers(cl))),
                           !.log = Append(@, Event("brace", key, IF js.sharing_ THEN id ELSE 0, cl))]

\* JsonSerial::writeValue2 for a defobject of static class T, and the
\* needcomma_ = true of the writeValue that called it when it has returned
writeDefobject(m, key, T) ==
    LET cl == getClassOfType(m.heap[key].cls)
    IN  IF cl = NoClass THEN error(m, "UnknownClass", m.heap[key].cls, TRUE)
        ELSE LET r == writeObject(m, cl, m.heap[key].cls # T, key)
             IN  IF Len(r.stack) = Len(m.stack)
                 THEN [r EXCEPT !.js.needcomma_ = TRUE]
                 ELSE r

\* JsonSerial::writeValue by the type of the value; T is the static class
\* of a pointee or of an object held by value
writeValue(m, v, T) ==
    CASE v.k = "string" -> [m EXCEPT !.js = writeString(@, v.s)]
      [] v.k = "char" -> [m EXCEPT !.js = writeChar(@, v.s[1])]
      [] v.k = "stringptr" ->
            IF v.p = 0
            THEN [m EXCEPT !.js = [emit(@, s_null) EXCEPT !.needcomma_ = TRUE]]
            ELSE [m EXCEPT !.js = writeString(@, v.s)]
      [] v.k = "ptr" ->
            IF v.p = 0
            THEN [m EXCEPT !.js = [emit(@, s_null) EXCEPT !.needcomma_ = TRUE]]
            ELSE writeDefobject(m, v.p, T)
      [] v.k = "object" -> writeDefobject(m, v.p, T)
      [] v.k = "int" ->
            [m EXCEPT !.js = [emit(@, IntToString(v.p)) EXCEPT !.needcomma_ = TRUE]]
      [] v.k = "bool" ->
            [m EXCEPT !.js = [emit(@, IF v.p = 1 THEN s_true ELSE s_false)
                              EXCEPT !.needcomma_ = TRUE]]
      [] OTHER ->
            IF v.l = <<>>
            THEN [m EXCEPT !.js = [emit(@, <<"[", "]">>) EXCEPT !.needcomma_ = TRUE]]
            ELSE [m EXCEPT !.js = addTab(emit([@ EXCEPT !.needcomma_ = FALSE], <<"[", "\n">>)),
                           !.stack = Append(@, WArray(v.l, T))]

\* one turn of the loop of ObjectClass::writeMembers, or the end of
\* writeObject after it
writeMembers(m) ==
    LET n == Len(m.stack)
        fr == m.stack[n]
        js == m.js
    IN  IF fr.i <= Len(fr.ms)
        THEN LET mb == fr.ms[fr.i]
                 js1 == IF js.needcomma_ THEN emit(js, <<",", "\n">>) ELSE js
                 js2 == emit(writeTabs([js1 EXCEPT !.needcomma_ = FALSE]),
                             <<"\"">> \o mb.name \o <<"\"", ":", " ">>)
             IN  writeValue([m EXCEPT !.js = js2, !.stack[n].i = @ + 1,
                                      !.log = Append(@, Event("member", fr.key, 0, mb.name))],
                            m.heap[fr.key].f[mb.name], mb.cls)
        ELSE LET js1 == removeTab(js)
                 js2 == emit(writeTabs(emit(js1, <<"\n">>)), RBrace)
             IN  [m EXCEPT !.js = [js2 EXCEPT !.needcomma_ = TRUE],
                           !.stack = SubSeq(@, 1, n - 1),
                           !.log = Append(@, Event("postwrite", fr.key, 0, <<>>))]

\* one turn of the loop of JsonSerial::writeArray, or its end
writeArray(m) ==
    LET n == Len(m.stack)
        fr == m.stack[n]
        js == m.js
    IN  IF fr.i <= Len(fr.items)
        THEN LET js1 == IF js.needcomma_ THEN emit(js, <<",", "\n">>) ELSE js
                 js2 == [writeTabs(js1) EXCEPT !.needcomma_ = FALSE]
             IN  writeValue([m EXCEPT !.js = js2, !.stack[n].i = @ + 1],
                            IF fr.cls = NoClass THEN StringV(fr.items[fr.i])
                            ELSE PtrV(fr.items[fr.i]),
                            fr.cls)
        ELSE LET js1 == removeTab(js)
                 js2 == emit(writeTabs(emit(js1, <<"\n">>)), RBracket)
             IN  [m EXCEPT !.js = [js2 EXCEPT !.needcomma_ = TRUE],
                           !.stack = SubSeq(@, 1, n - 1)]

\* a write that ends the stream with one newline
writeEnd_oneNewline(m) ==
    IF m.thrown # "" THEN [m EXCEPT !.stack = <<>>, !.result = FALSE]
    ELSE IF m.stack # <<>> THEN m
    ELSE [m EXCEPT !.js = emit(@, <<"\n">>),
                   !.result = (m.js.jsonerror_ = NoError)]

\* JsonSerial::write after writeValue has returned or thrown: the two
\* newlines of "\n" << std::endl, and the result
writeEnd(m) ==
    IF m.thrown # "" THEN [m EXCEPT !.stack = <<>>, !.result = FALSE]
    ELSE IF m.stack # <<>> THEN m
    ELSE [m EXCEPT !.js = emit(@, <<"\n", "\n">>),
                   !.result = (m.js.jsonerror_ = NoError)]


(***************************************************************************)
(* Reading.                                                                *)
(***************************************************************************)
\* cls is T or a class that extends T
RECURSIVE isa(_, _)
isa(cls, T) ==
    \/ cls = T
    \/ \E i \in 1..Len(classnames_[cls].supers) : isa(classnames_[cls].supers[i], T)

\* ObjectClass::getMember and the search of ObjectClass::readMember: the
\* member called name of the class or, failing that, of its superclasses in
\* order, with the class that declares it
RECURSIVE findMember(_, _)
RECURSIVE findInSupers(_, _, _)
findInSupers(supers, i, name) ==
    IF i > Len(supers) THEN [found |-> FALSE, mb |-> Member(<<>>, "", NoClass, FALSE), decl |-> NoClass]
    ELSE LET r == findMember(supers[i], name)
         IN  IF r.found THEN r ELSE findInSupers(supers, i + 1, name)

findMember(cls, name) ==
    LET ms == classnames_[cls].members
        hits == {i \in 1..Len(ms) : ms[i].name = name}
    IN  IF hits # {}
        THEN [found |-> TRUE, mb |-> ms[CHOOSE i \in hits : TRUE], decl |-> cls]
        ELSE findInSupers(classnames_[cls].supers, 1, name)

\* where the pointer that readObject returns is stored by its caller: the
\* pointer given to the top-level read, a pointer member, the last item of
\* a list, or nowhere (an object held by value)
Dest(d, key, name) == [d |-> d, key |-> key, name |-> name]
NoDest == Dest("none", 0, <<>>)

\* the object of static class T that a pointer holding the address raw
\* points to: the object of class T (or of a class that extends T) at that
\* address; 0 if the address holds no such object
objectAt(heap0, raw, T) ==
    LET fit == {k \in 1..Len(heap0) : heap0[k].addr = raw /\ isa(heap0[k].cls, T)}
    IN  IF fit = {} THEN 0 ELSE CHOOSE k \in fit : \A j \in fit : k >= j

\* ptr = static_cast<T*>(readObject(...)) and its like in the callers of
\* readObject, once it has returned the address raw
assign(m, dest, raw, T) ==
    LET p == objectAt(m.heap, raw, T)
        m1 == IF p = 0 /\ dest.d # "none" THEN [m EXCEPT !.ub = TRUE] ELSE m
    IN  CASE dest.d = "root" -> [m1 EXCEPT !.copy = p]
          [] dest.d = "field" -> [m1 EXCEPT !.heap[dest.key].f[dest.name] = PtrV(p)]
          [] dest.d = "item" ->
                [m1 EXCEPT !.heap[dest.key].f[dest.name].l =
                               [@ EXCEPT ![Len(@)] = p]]
          [] OTHER -> m

\* an open call of readObject (obj = 0: the object is not created yet,
\* objclass = NoClass: its class is not pinned yet, cr = NoClass: no
\* creator was given, else the class the creator builds; jsp: the id whose
\* ObjectPtr the call has set jsp to, 0 for nullptr) or of readArray
\* (obj and dest.name: the list; pointerclass: the class of the items)
RObject(obj, objclass, pointerclass, cr, dest) ==
    [k |-> "object", obj |-> obj, objclass |-> objclass,
     pointerclass |-> pointerclass, cr |-> cr, dest |-> dest, jsp |-> 0]
RArray(obj, name, pointerclass, cr) ==
    [k |-> "array", obj |-> obj, objclass |-> NoClass,
     pointerclass |-> pointerclass, cr |-> cr, dest |-> Dest("item", obj, name), jsp |-> 0]

\* the open call of readArray on the std::list<std::string> that the
\* top-level read was given
RStrings ==
    [k |-> "array", obj |-> 0, objclass |-> NoClass,
     pointerclass |-> NoClass, cr |-> NoClass, dest |-> Dest("var", 0, <<>>), jsp |-> 0]

\* the open call of readArray on the container of std::shared_ptr<A> that
\* the top-level read was given
RShared ==
    [k |-> "array", obj |-> 0, objclass |-> NoClass,
     pointerclass |-> c_A, cr |-> NoClass, dest |-> Dest("shared", 0, <<>>), jsp |-> 0]

\* readObject before its loop
readObject(m, objclass, pointerclass, cr, obj, s, dest) ==
    IF s = <<>> THEN error(m, "ExpectingBrace", <<>>, TRUE)
    ELSE IF s[1] = "@"
    THEN LET id == strtoul0(Tail(s))
         IN  IF id \notin DOMAIN m.js.id_to_object_
             THEN error(m, "InvalidID", <<>>, TRUE)
             ELSE assign([m EXCEPT !.log = Append(@, Event("bind", 0, id, <<>>))],
                         dest, m.js.id_to_object_[id], pointerclass)
    ELSE IF s # LBrace THEN error(m, "ExpectingBrace", <<>>, TRUE)
    ELSE [m EXCEPT !.stack = Append(@, RObject(obj, objclass, pointerclass, cr, dest))]

\* JsonSerial::getCheckedClass followed by readObject, as readPointee does
\* for a pointer to an object of static class T
readPointee(m, T, cr, s, dest) ==
    IF getClassOfType(T) = NoClass THEN error(m, "UnknownClass", T, TRUE)
    ELSE readObject(m, NoClass, getClassOfType(T), cr, 0, s, dest)

s_boolean == <<" ", "s", "h", "o", "u", "l", "d", " ", "b", "e", " ", "a", " ",
               "b", "o", "o", "l", "e", "a", "n">>
s_member == <<" ", "f", "o", "r", " ", "m", "e", "m", "b", "e", "r", " ", "'">>

\* readValue(JsonSerial&, int&, s) for the member called name, r being
\* std::stoi(s): std::invalid_argument is caught by readObject and reported
\* as InvalidValue with the name of the member, std::out_of_range is not
\* caught
readInt(m, obj, name, val, r) ==
    IF ~r.ok THEN error(m, "InvalidValue", val \o s_member \o name \o <<"'">>, TRUE)
    ELSE IF ~r.range THEN [m EXCEPT !.thrown = "out_of_range"]
    ELSE [m EXCEPT !.heap[obj].f[name] = IntV(r.val)]

\* Member::read by the kind of the member
readMemberValue(m, obj, mb, val) ==
    CASE mb.kind = "string" -> [m EXCEPT !.heap[obj].f[mb.name] = StringV(val)]
      [] mb.kind = "char" ->
            [m EXCEPT !.heap[obj].f[mb.name] = CharV(IF val = <<>> THEN "NUL" ELSE val[1])]
      [] mb.kind = "stringptr" ->
            [m EXCEPT !.heap[obj].f[mb.name] =
                          IF val # s_null THEN StringPtrV(1, val) ELSE StringPtrV(0, <<>>)]
      [] mb.kind = "int" -> readInt(m, obj, mb.name, val, stoi(val))
      [] mb.kind = "bool" ->
            IF val = s_true THEN [m EXCEPT !.heap[obj].f[mb.name] = BoolV(TRUE)]
            ELSE IF val = s_false THEN [m EXCEPT !.heap[obj].f[mb.name] = BoolV(FALSE)]
            ELSE error(m, "InvalidValue", val \o s_boolean, TRUE)
      [] mb.kind = "ptr" ->
            LET m1 == [m EXCEPT !.heap[obj].f[mb.name] = PtrV(0)]
            IN  IF val # s_null
                THEN readPointee(m1, mb.cls, NoClass, val, Dest("field", obj, mb.name))
                ELSE m1
      [] mb.kind = "ptrcr" ->
            LET m1 == [m EXCEPT !.heap[obj].f[mb.name] = PtrV(0)]
            IN  IF val # s_null
                THEN readPointee(m1, mb.cls, creatorMakes(mb), val, Dest("field", obj, mb.name))
                ELSE m1
      [] mb.kind = "object" ->
            IF getClassOfType(mb.cls) = NoClass THEN error(m, "UnknownClass", mb.cls, TRUE)
            ELSE readObject(m, mb.cls, mb.cls, NoClass, m.heap[obj].f[mb.name].p, val,
                            Dest("none", obj, mb.name))
      [] OTHER ->
            LET m1 == [m EXCEPT !.heap[obj].f[mb.name] = ListV(<<>>)]
            IN  IF val # LBracket THEN error(m1, "ExpectingBracket", <<>>, TRUE)
                ELSE [m1 EXCEPT !.stack = Append(@, RArray(obj, mb.name, mb.cls, NoClass))]

\* a readMember after which readObject reports a fatal UnknownMember
readMember_fatal(m, objclass, obj, name, val, ubo) ==
    error(m, "UnknownMember", <<"'">> \o name \o <<"'", " ">> \o objclass, TRUE)

\* ObjectClass::readMember and the error of readObject when it returns
\* false.  A member declared by a class that the object is not an instance
\* of is read through a pointer of the wrong type: the behaviour is
\* undefined, and ubo is what comes of it (the value lands outside the
\* object, or the program crashes).
readMember(m, objclass, obj, name, val, ubo) ==
    LET r == findMember(objclass, name)
    IN  IF ~r.found
        THEN error(m, "UnknownMember", <<"'">> \o name \o <<"'", " ">> \o objclass, FALSE)
        ELSE IF ~isa(m.heap[obj].cls, r.decl)
        THEN IF ubo = "crash" THEN [m EXCEPT !.ub = TRUE, !.thrown = "crash"]
             ELSE [m EXCEPT !.ub = TRUE]
        ELSE readMemberValue(m, obj, r.mb, val)

\* the stream of the engine after a call of readLine that returned r
afterReadLine(js, r) ==
    [js EXCEPT !.pos = r.pos, !.good = r.good, !.lineno_ = r.lineno,
               !.in_multiquotes_ = r.multi]

streamOf(js) == [pos |-> js.pos, good |-> js.good, lineno |-> js.lineno_, multi |-> js.in_multiquotes_]

\* new cls(): the machine with the object created, at a fresh address
create(m, cls) ==
    LET key == Len(m.heap) + 1
    IN  [m EXCEPT !.heap = construct(@, cls, key),
                  !.log = Append(@, Event("create", key, 0, cls))]

\* the class readObject pins for the object of the open call fr when it
\* meets the pair (name, value): the class it was given, the class that
\* "@class" names, or the class of the pointer
pinnedClass(fr, name, value) ==
    IF fr.objclass # NoClass THEN fr.objclass
    ELSE IF name # n_class THEN fr.pointerclass
    ELSE getClass(value)

\* the class of the object readObject creates then: the class the creator
\* builds if a creator was given, else the pinned class if it has a
\* constructor; NoClass if it creates nothing
createdClass(fr, pinned) ==
    IF fr.objclass # NoClass \/ fr.obj # 0 THEN NoClass
    ELSE IF fr.cr # NoClass THEN fr.cr
    ELSE IF pinned # NoClass /\ classnames_[pinned].creator THEN thunkMakes(pinned)
    ELSE NoClass

\* std::stoul of the value of "@id" has thrown std::invalid_argument in the
\* open call fr.  The readObject that encloses this one, if there is one,
\* catches it in the try around readMember and reports InvalidValue for the
\* member it was reading; the readObject of the top level has none, and the
\* exception leaves read().
invalidId(m, fr) ==
    IF Len(m.stack) > 1
    THEN error(m, "InvalidValue",
               (IF fr.dest.d = "item" THEN LBracket ELSE LBrace)
               \o s_member \o fr.dest.name \o <<"'">>, TRUE)
    ELSE [m EXCEPT !.thrown = "invalid_argument"]

\* the storage that the address a names still holds a std::shared_ptr:
\* the nodes of a list stay, the elements of a vector are moved when it
\* allocates a new storage, and the local variable val of the add of a set
\* is gone when add has returned
live(v, a) == v.k = "list" \/ (v.k = "vector" /\ a.buf = v.buf)

\* readPointee2 for a std::shared_ptr<A>, the last element of the
\* container (or the val that a set inserts later), once readObject has
\* returned the object key with jsp set to the ObjectPtr of the id jsp
\* (0: nullptr).  Copying from a storage that is gone is undefined: the
\* program crashes, or the copy is made of what the storage holds, an
\* empty pointer in the elements a vector has moved, the former pointer
\* in the variable of a set.
readPointee2(m, key, jsp, ubo) ==
    LET v == m.var
        here == Len(v.l)
        fresh == [m EXCEPT !.var.l[here] = Handle(key, v.nctl + 1), !.var.nctl = @ + 1]
    IN  IF jsp = 0 THEN fresh
        ELSE IF jsp \in DOMAIN m.js.shared_
        THEN IF live(v, m.js.shared_[jsp])
             THEN [m EXCEPT !.js.init_[jsp] = FALSE, !.var.l[here] = v.l[m.js.shared_[jsp].i]]
             ELSE IF ubo = "crash"
             THEN [m EXCEPT !.js.init_[jsp] = FALSE, !.ub = TRUE, !.thrown = "crash"]
             ELSE [m EXCEPT !.js.init_[jsp] = FALSE, !.ub = TRUE,
                            !.var.l[here] = IF v.k = "vector" THEN NoHandle
                                            ELSE v.l[m.js.shared_[jsp].i]]
        ELSE [fresh EXCEPT !.js.shared_ = (jsp :> Addr(v.buf, here)) @@ @,
                           !.js.init_ = (jsp :> TRUE) @@ @]

\* std::set::insert of the last element of l, which holds val
insert(l) ==
    IF \E i \in 1..(Len(l) - 1) : l[i].obj = l[Len(l)].obj
    THEN SubSeq(l, 1, Len(l) - 1)
    ELSE l

\* JsonArrayImpl::add after readArrayValue has returned with objptr set
\* to the ObjectPtr of the id jsp: a vector notes the element in
\* pointers_, a set inserts val
added(m, jsp) ==
    IF m.thrown # "" THEN m
    ELSE IF m.var.k = "vector"
    THEN IF jsp # 0 /\ m.js.init_[jsp]
         THEN [m EXCEPT !.var.pointers_ = Append(@, [index |-> Len(m.var.l), jsp |-> jsp])]
         ELSE m
    ELSE IF m.var.k = "set" THEN [m EXCEPT !.var.l = insert(@)]
    ELSE m

\* JsonArrayImpl<std::vector>::end: shrink_to_fit, which allocates a new
\* storage when the capacity is larger than the size, and fixPointers
\* when pointers_ holds more than one element; the other containers have
\* the end of JsonArray, which does nothing
end(m) ==
    LET v == m.var
        shrunk == IF v.cap > Len(v.l) THEN [v EXCEPT !.cap = Len(v.l), !.buf = @ + 1] ELSE v
        fixed(id) == {i \in 1..Len(v.pointers_) : v.pointers_[i].jsp = id}
    IN  IF v.k # "vector" THEN m
        ELSE [m EXCEPT !.var = shrunk,
                       !.js.shared_ =
                           IF Len(v.pointers_) > 1
                           THEN [id \in DOMAIN @ |->
                                    IF fixed(id) # {}
                                    THEN Addr(shrunk.buf,
                                              v.pointers_[CHOOSE i \in fixed(id) :
                                                              \A j \in fixed(id) : i >= j].index)
                                    ELSE @[id]]
                           ELSE @]

\* the end of the body of the loop of readObject, for the object obj of
\* the pinned class: the closing brace, "@id", or a member
readObjectMember(m, fr, pinned, obj, name, value, ubo) ==
    IF name = RBrace
    THEN IF fr.dest.d = "shared"
         THEN added(readPointee2([m EXCEPT !.stack = SubSeq(@, 1, Len(@) - 1),
                                           !.log = Append(@, Event("postread", obj, 0, pinned))],
                                 obj, fr.jsp, ubo),
                    fr.jsp)
         ELSE assign([m EXCEPT !.stack = SubSeq(@, 1, Len(@) - 1),
                               !.log = Append(@, Event("postread", obj, 0, pinned))],
                     fr.dest, m.heap[obj].addr, fr.pointerclass)
    ELSE IF name = n_id
    THEN IF ~stoul(value).ok THEN invalidId(m, fr)
         ELSE [m EXCEPT !.js.id_to_object_ =
                            (stoul(value).val :> m.heap[obj].addr) @@
                            [i \in DOMAIN @ \ {stoul(value).val} |-> @[i]],
                        !.stack[Len(m.stack)].jsp = stoul(value).val]
    ELSE readMember(m, pinned, obj, name, value, ubo)

\* the part of the body of the loop of readObject that pins the class and
\* creates the object
readObjectPinned(m, fr, pinned, made, name, value, ubo) ==
    IF pinned = NoClass THEN error(m, "UnknownClass", value, TRUE)
    ELSE IF made = NoClass /\ fr.obj = 0 THEN error(m, "AbstractClass", pinned, TRUE)
    ELSE IF made # NoClass
    THEN IF name = n_class
         THEN [create(m, made) EXCEPT !.stack[Len(m.stack)].objclass = pinned,
                                      !.stack[Len(m.stack)].obj = Len(m.heap) + 1]
         ELSE readObjectMember([create(m, made) EXCEPT !.stack[Len(m.stack)].objclass = pinned,
                                                       !.stack[Len(m.stack)].obj = Len(m.heap) + 1],
                               fr, pinned, Len(m.heap) + 1, name, value, ubo)
    ELSE IF fr.objclass = NoClass /\ name = n_class
    THEN [m EXCEPT !.stack[Len(m.stack)].objclass = pinned]
    ELSE readObjectMember([m EXCEPT !.stack[Len(m.stack)].objclass = pinned],
                          fr, pinned, fr.obj, name, value, ubo)

\* the body of the loop of readObject, for the open call fr, once readLine
\* has returned the pair (name, value) without error
readObjectPair(m, fr, name, value, ubo) ==
    IF name # <<>> /\ name[1] = "@" /\ name # n_class /\ name # n_id
    THEN error(m, "WrongKeyword", value, TRUE)
    ELSE readObjectPinned(m, fr, pinnedClass(fr, name, value),
                          createdClass(fr, pinnedClass(fr, name, value)),
                          name, value, ubo)

\* the loop of readObject after readLine has returned r
readObjectLine(m, r, ubo) ==
    IF r.err # "OK" THEN error(m, r.err, r.arg, TRUE)
    ELSE IF ~r.found1 THEN error(m, "ExpectingPairOrBrace", <<>>, TRUE)
    ELSE IF ~r.found2 /\ r.token1 # RBrace
    THEN error(m, "ExpectingPairOrBrace", <<>>, TRUE)
    ELSE readObjectPair(m, m.stack[Len(m.stack)], r.token1, r.token2, ubo)

\* the machine after a call of readLine that returned r
lineRead(m, r, level) ==
    [m EXCEPT !.js = afterReadLine(@, r),
              !.log = Append(@, Event("pair", level, 0, <<r.token1, r.token2>>))]

readObjectGot(m, r, ubo) == readObjectLine(lineRead(m, r, Len(m.stack)), r, ubo)

\* one turn of the loop of readObject
readObjectTurn(m, ubo) ==
    IF ~m.js.good THEN error(m, "PrematureEOF", <<>>, TRUE)
    ELSE readObjectGot(m, readLine(m.js.in_, streamOf(m.js), TRUE, m.js.allow_), ubo)

\* cont_.resize(cont_.size() + 1) of a vector, which allocates a storage
\* twice as large when the capacity is used up, or of a list; for a set,
\* the local variable val
resize(v) ==
    IF v.k = "vector" /\ Len(v.l) + 1 > v.cap
    THEN [v EXCEPT !.l = Append(@, NoHandle), !.cap = IF @ = 0 THEN 1 ELSE 2 * @,
                   !.buf = @ + 1]
    ELSE [v EXCEPT !.l = Append(@, NoHandle)]

\* JsonArrayImpl::add for a container of std::shared_ptr<A>: the element
\* is made, readArrayValue resets it and, unless the token is null, calls
\* readPointee; a reference "@N" is bound at once, and an object when its
\* closing brace is read
addShared(m, fr, s, ubo) ==
    LET m1 == [m EXCEPT !.var = resize(@)]
        m2 == readPointee(m1, fr.pointerclass, fr.cr, s, fr.dest)
    IN  IF s = s_null THEN added(m1, 0)
        ELSE IF m2.thrown # "" \/ Len(m2.stack) > Len(m.stack) THEN m2
        ELSE added(readPointee2(m2, objectAt(m2.heap, m2.js.id_to_object_[strtoul0(Tail(s))],
                                             fr.pointerclass),
                                strtoul0(Tail(s)), ubo),
                   strtoul0(Tail(s)))

\* JsonArrayImpl<std::list>::add: a null pointer is appended to the list
\* and readArrayValue reads the item into it; an empty string is appended
\* to a list of strings and readValue assigns the token to it
add(m, fr, s, ubo) ==
    IF fr.dest.d = "var" THEN [m EXCEPT !.var.l = Append(@, s)]
    ELSE IF fr.dest.d = "shared" THEN addShared(m, fr, s, ubo)
    ELSE IF s # s_null
    THEN readPointee([m EXCEPT !.heap[fr.obj].f[fr.dest.name].l = Append(@, 0)],
                     fr.pointerclass, fr.cr, s, fr.dest)
    ELSE [m EXCEPT !.heap[fr.obj].f[fr.dest.name].l = Append(@, 0)]

\* the loop of readArray after readLine has returned r
readArrayLine(m, fr, r, ubo) ==
    IF r.err # "OK" THEN error(m, r.err, r.arg, TRUE)
    ELSE IF ~r.found1 THEN error(m, "ExpectingValueOrBracket", <<>>, TRUE)
    ELSE IF r.token1 = RBracket
    THEN IF fr.dest.d = "shared"
         THEN end([m EXCEPT !.stack = SubSeq(@, 1, Len(@) - 1)])
         ELSE [m EXCEPT !.stack = SubSeq(@, 1, Len(@) - 1)]
    ELSE add(m, fr, r.token1, ubo)

readArrayGot(m, r, ubo) ==
    readArrayLine(lineRead(m, r, Len(m.stack)), m.stack[Len(m.stack)], r, ubo)

\* one turn of the loop of readArray for a std::list of pointers to
\* objects; the loop is left without error when the stream is not good
readArrayTurn(m, ubo) ==
    IF ~m.js.good THEN [m EXCEPT !.stack = SubSeq(@, 1, Len(@) - 1)]
    ELSE readArrayGot(m, readLine(m.js.in_, streamOf(m.js), FALSE, m.js.allow_), ubo)

\* JsonSerial::read after its readLine has returned r: readValue for a
\* pointer of static class T, or NoData; for a list of strings the
\* constructor of JsonArrayImpl clears it and readArray tests the bracket
\* readValue(js, int&, s) on the variable that read was given: no one
\* catches what std::stoi throws
readIntVar(m, r) ==
    IF ~r.ok THEN [m EXCEPT !.thrown = "invalid_argument"]
    ELSE IF ~r.range THEN [m EXCEPT !.thrown = "out_of_range"]
    ELSE [m EXCEPT !.var = IntV(r.val)]

readFirst(m, r, T) ==
    IF r.err # "OK" THEN error(m, r.err, r.arg, TRUE)
    ELSE IF ~r.found1 THEN error(m, "NoData", <<>>, TRUE)
    ELSE IF T = "string" THEN [m EXCEPT !.var = StringV(r.token1)]
    ELSE IF T = "strings" THEN
        IF r.token1 # LBracket
        THEN error([m EXCEPT !.var = StringsV(<<>>)], "ExpectingBracket", <<>>, TRUE)
        ELSE [m EXCEPT !.var = StringsV(<<>>), !.stack = Append(@, RStrings)]
    ELSE IF T \in SharedKinds THEN
        IF r.token1 # LBracket
        THEN error([m EXCEPT !.var = SharedV(T)], "ExpectingBracket", <<>>, TRUE)
        ELSE [m EXCEPT !.var = SharedV(T), !.stack = Append(@, RShared)]
    ELSE IF T = "int" THEN readIntVar(m, stoi(r.token1))
    ELSE IF T = "bool" THEN
        IF r.token1 = s_true THEN [m EXCEPT !.var = BoolV(TRUE)]
        ELSE IF r.token1 = s_false THEN [m EXCEPT !.var = BoolV(FALSE)]
        ELSE error(m, "InvalidValue", r.token1 \o s_boolean, TRUE)
    ELSE IF r.token1 # s_null THEN readPointee(m, T, NoClass, r.token1, Dest("root", 0, <<>>))
    ELSE m

\* the machine at the start of JsonSerial::read, after reset
readReset(m, inp) ==
    [m EXCEPT !.js = reset(@, 1, TRUE, inp), !.copy = 0, !.stack = <<>>,
              !.thrown = "", !.ub = FALSE, !.log = <<>>]

readFirstGot(m, r, T) == readFirst(lineRead(m, r, 0), r, T)

\* JsonSerial::read before readValue returns: reset, the first readLine,
\* and readValue
readBegin(m, inp, T) ==
    readFirstGot(readReset(m, inp),
                 readLine(inp, streamOf(reset(m.js, 1, TRUE, inp)), TRUE, m.js.allow_), T)

\* JsonSerial::read after readValue has returned or thrown
readEnd(m) ==
    IF m.thrown # "" THEN [m EXCEPT !.stack = <<>>, !.result = FALSE]
    ELSE IF m.stack # <<>> THEN m
    ELSE [m EXCEPT !.result = (m.js.jsonerror_ = NoError)]


(***************************************************************************)
(* The graphs that are written and the documents that are read.            *)
(***************************************************************************)
MaxHeld == 1

s_a == <<"a">>
s_b == <<"b">>
s_c == <<"c">>
s_i == <<"i">>
s_1 == <<"1">>
s_12 == <<"1", "-", "2">>
s_x == <<"x">>

\* an A or a B on the heap, at its own address
Node(cls, key, x, next) ==
    [cls |-> cls, addr |-> key,
     f |-> IF cls = c_B
           THEN (n_x :> StringV(x)) @@ (n_next :> PtrV(next)) @@ (n_y :> StringV(s_c))
           ELSE (n_x :> StringV(x)) @@ (n_next :> PtrV(next))]

\* graphs of A and B linked by next, written through a pointer to A
\* (examples/contact_special_cases.cpp: js.write(bob, ...))
PointerGraphs ==
    {[heap |-> [i \in 1..n |-> Node(cls[i], i, IF i = 1 THEN s_a ELSE s_b, next[i])],
      root |-> [byval |-> FALSE, p |-> 1, cls |-> c_A]] :
        n \in 1..MaxObjs, cls \in [1..MaxObjs -> {c_A, c_B}], next \in [1..MaxObjs -> 0..MaxObjs]}

\* an H (key 1) that holds an A by value as its first data member (key 2,
\* at the address of the H), a list of pointers and a pointer with a
\* creator, and the A or B they point to (keys 3..)
HGraphs ==
    {[heap |-> <<[cls |-> c_H, addr |-> 1,
                  f |-> (n_inner :> ObjectV(2)) @@ (n_kids :> ListV(kids)) @@ (n_made :> PtrV(made))],
                 Node(c_A, 1, s_i, inext)>>
               \o [i \in 1..h |-> Node(cls, i + 2, s_a, next)],
      root |-> [byval |-> TRUE, p |-> 1, cls |-> c_H]] :
        h \in 0..MaxHeld, cls \in {c_A, c_B},
        next \in {0, 2, 3}, inext \in {0, 3}, made \in {0, 3},
        kids \in UNION {[1..l -> {0, 3}] : l \in 0..MaxKids}}

\* the graphs above whose pointers all point into the heap, once each
WellFormed(g) ==
    LET n == Len(g.heap)
    IN  /\ \A k \in 1..n : n_next \in DOMAIN g.heap[k].f => g.heap[k].f[n_next].p <= n
        /\ n_made \in DOMAIN g.heap[1].f =>
              /\ g.heap[1].f[n_made].p <= n
              /\ \A i \in 1..Len(g.heap[1].f[n_kids].l) : g.heap[1].f[n_kids].l[i] <= n
              /\ n = 2 => g.heap[2].f[n_next].p = 0

StringVals == {<<>>, s_a, s_null, <<"\"">>}
CharVals == {"F", "\""}

\* an N written by value (tests/tests.cpp: js.write(contacts, ...))
NGraphs ==
    {[heap |-> <<[cls |-> c_N, addr |-> 1,
                  f |-> (n_name1 :> StringV(s1)) @@ (n_name2 :> sp) @@ (n_sex :> CharV(c))]>>,
      root |-> [byval |-> TRUE, p |-> 1, cls |-> c_N]] :
        s1 \in {s_a, s_null}, c \in CharVals,
        sp \in {StringPtrV(0, <<>>)} \cup {StringPtrV(1, s2) : s2 \in StringVals}}

PGraphs ==
    {[heap |-> <<[cls |-> c_P, addr |-> 1,
                  f |-> (n_type :> StringV(t)) @@ (n_number :> StringV(nb))]>>,
      root |-> [byval |-> TRUE, p |-> 1, cls |-> c_P]] :
        t \in {s_home, <<>>}, nb \in {s_212, s_12}}

\* a D (D extends B and F, B extends A), written by value or through a
\* pointer to A
DGraphs ==
    {[heap |-> <<[cls |-> c_D, addr |-> 1,
                  f |-> (n_x :> StringV(s_a)) @@ (n_next :> PtrV(next)) @@ (n_y :> StringV(s_b))
                        @@ (n_image :> StringV(s_i)) @@ (n_z :> StringV(s_c))]>>,
      root |-> [byval |-> byval, p |-> 1, cls |-> IF byval THEN c_D ELSE c_A]] :
        next \in {0, 1}, byval \in BOOLEAN}

\* an E, a class registered without members, written through a pointer
EGraphs ==
    {[heap |-> <<[cls |-> c_E, addr |-> 1, f |-> <<>>]>>,
      root |-> [byval |-> FALSE, p |-> 1, cls |-> c_E]]}

\* the graphs written after setIndent, chains of A, and the indentations
\* given to it
IndentGraphs ==
    {g \in PointerGraphs :
        \A k \in 1..Len(g.heap) :
            /\ g.heap[k].cls = c_A
            /\ g.heap[k].f[n_next].p \in {0} \cup ((k + 1)..Len(g.heap))}
IndentChars == {" ", "\t"}
IndentCounts == {0, 2, 20, 31, 61}

Graphs ==
    {g \in PointerGraphs \cup HGraphs : WellFormed(g)} \cup NGraphs \cup PGraphs \cup DGraphs
    \cup EGraphs


\* pieces of documents
Quoted(s) == <<"\"">> \o s \o <<"\"">>
Pair(name, value) == Quoted(name) \o <<":">> \o value

RECURSIVE Joined(_, _)
Joined(items, sep) ==
    IF items = <<>> THEN <<>>
    ELSE IF Len(items) = 1 THEN items[1]
    ELSE items[1] \o sep \o Joined(Tail(items), sep)

Braced(pairs) == LBrace \o Joined(pairs, <<",">>) \o RBrace

InsertAt(seq, i, e) == SubSeq(seq, 1, i) \o <<e>> \o SubSeq(seq, i + 1, Len(seq))

\* the values given to the member that P does not have
v_object == Braced(<<Pair(s_a, Quoted(s_b))>>)
v_array == LBracket \o Quoted(s_x) \o RBracket
ExtraValues == {Quoted(s_x), <<"5">>, s_null, v_object, v_array}

\* {"type":"home","number":"1"} with "extra": v put before, between or
\* after its two members
UnknownMemberDoc(i, v) ==
    Braced(InsertAt(<<Pair(n_type, Quoted(s_home)), Pair(n_number, Quoted(s_1))>>,
                    i, Pair(n_extra, v)))

UnknownMemberDocs == {UnknownMemberDoc(i, v) : i \in 0..2, v \in ExtraValues}

\* {
\*   type: home  // phone
\*   number: "1-2"
\* }
RelaxedDoc ==
    <<"{", "\n", " ", " ">> \o n_type \o <<":", " ">> \o s_home
    \o <<" ", " ", "/", "/", " ", "p", "h", "o", "n", "e", "\n", " ", " ">>
    \o n_number \o <<":", " ">> \o Quoted(s_12) \o <<"\n", "}">>

\* the same document with the line comment replaced by spaces
RelaxedDocBlank ==
    <<"{", "\n", " ", " ">> \o n_type \o <<":", " ">> \o s_home
    \o <<" ", " ", " ", " ", " ", " ", " ", " ", " ", " ", "\n", " ", " ">>
    \o n_number \o <<":", " ">> \o Quoted(s_12) \o <<"\n", "}">>

\* {"type":"home", // c
\* "number":"1-2"} and its like with a block comment, and with blanks
CommentDocs ==
    {LBrace \o Pair(n_type, Quoted(s_home)) \o c \o Pair(n_number, Quoted(s_12)) \o RBrace :
        c \in {<<",", " ", "/", "/", " ", "c", "\n">>,
               <<",", " ", " ", " ", " ", " ", "\n">>,
               <<" ", "/", "*", "c", "*", "/", ",">>,
               <<" ", " ", " ", " ", " ", " ", ",">>,
               <<",", "/", "*", "\n", "*", "/", " ">>}}

Docs == UnknownMemberDocs \cup CommentDocs \cup {RelaxedDoc, RelaxedDocBlank}
        \cup {Braced(<<Pair(n_type, Quoted(s_home)), Pair(n_number, Quoted(s_1))>>)}

\* {"@id":"N1","x":"a","next":"@N2"}: an A tagged N1 whose next refers
\* to the object tagged N2
s_10 == <<"1", "0">>
s_010 == <<"0", "1", "0">>
s_8 == <<"8">>
IdTexts == {s_1, s_10, s_010, s_8}

IdDoc(N1, N2) ==
    Braced(<<Pair(n_id, Quoted(N1)), Pair(n_x, Quoted(s_a)),
             Pair(n_next, Quoted(<<"@">> \o N2))>>)

IdDocs == {IdDoc(N1, N2) : N1 \in IdTexts \cup {s_x}, N2 \in IdTexts}

\* documents of the classes whose object the reader cannot make
ImageDoc == Braced(<<Pair(n_image, Quoted(s_i))>>)
TypeDoc == Braced(<<Pair(n_type, Quoted(s_a))>>)

\* {"num":t,"isalive":w}, the two values quoted or not
s_5 == <<"5">>
s_m3 == <<"-", "3">>
s_12abc == <<"1", "2", "a", "b", "c">>
s_abc == <<"a", "b", "c">>
s_y == <<"y">>
NumTexts == {s_5, s_m3, s_12abc, s_abc}
BoolTexts == {s_true, s_false, s_y}

ScalarDoc(t, w, q) ==
    Braced(<<Pair(n_num, IF q THEN Quoted(t) ELSE t),
             Pair(n_isalive, IF q THEN Quoted(w) ELSE w)>>)

ScalarDocs == {ScalarDoc(t, w, q) : t \in NumTexts, w \in BoolTexts, q \in BOOLEAN}

\* {"type":token,"number":"1"}, the token unquoted
s_1p5 == <<"1", ".", "5">>
s_1e5 == <<"1", "e", "5">>
s_1p2p3 == <<"1", ".", "2", ".", "3">>
s_minus == <<"-">>
s_e == <<"e">>
s_1e == <<"1", "e">>
UnquotedTokens ==
    {s_null, s_true, s_false, s_5, s_m3, s_1p5, s_1e5, s_abc, s_1p2p3, s_minus, s_e, s_1e}

UnquotedDoc(token) == Braced(<<Pair(n_type, token), Pair(n_number, Quoted(s_1))>>)

\* a document of a P, read into a pointer to A
UnrelatedDoc == Braced(<<Pair(n_class, Quoted(c_P)), Pair(n_type, Quoted(s_a))>>)

\* documents that end before their last brace: after a complete value,
\* inside the list of an H, after the list of an H
OpenPhone == LBrace \o Pair(n_type, Quoted(s_a))
OpenKids == LBrace \o Pair(n_kids, LBracket) \o Braced(<<Pair(n_x, Quoted(s_a))>>)
OpenAfterKids == OpenKids \o RBracket

\* a document whose first member is named "}"
BraceNameDoc == Braced(<<Pair(RBrace, Quoted(s_a)), Pair(n_type, Quoted(s_b))>>)

\* the documents with the class of the pointer they are read into
DocInputs ==
    {[doc |-> d, cls |-> c_P] : d \in Docs}
    \cup {[doc |-> d, cls |-> c_A] : d \in IdDocs}
    \cup {[doc |-> ImageDoc, cls |-> c_F], [doc |-> TypeDoc, cls |-> c_Q]}
    \cup {[doc |-> d, cls |-> c_S] : d \in ScalarDocs}
    \cup {[doc |-> UnquotedDoc(token), cls |-> c_P] : token \in UnquotedTokens}
    \cup {[doc |-> UnrelatedDoc, cls |-> c_A]}
    \cup {[doc |-> OpenPhone, cls |-> c_P], [doc |-> BraceNameDoc, cls |-> c_P],
          [doc |-> OpenKids, cls |-> c_H], [doc |-> OpenAfterKids, cls |-> c_H]}

\* the lists of strings that are written and read back, and the documents
\* read into a std::list<std::string>: arrays of quoted strings, whole or
\* ending before the bracket, after a string or after a comma
MaxItems == 2
StringItems == {s_a, RBracket, RBrace}
StringLists ==
    UNION {[1..n -> StringItems] : n \in 0..MaxItems}

RECURSIVE QuotedAll(_)
QuotedAll(l) == IF l = <<>> THEN <<>> ELSE <<Quoted(Head(l))>> \o QuotedAll(Tail(l))

Bracketed(l) == LBracket \o Joined(QuotedAll(l), <<",">>) \o RBracket
OpenArray(l, comma) ==
    LBracket \o Joined(QuotedAll(l), <<",">>) \o (IF comma THEN <<",">> ELSE <<>>)

StringsDocs ==
    {Bracketed(<<s_a, RBracket, s_b>>), Bracketed(<<s_a, s_b>>), LBracket}
    \cup {OpenArray(l, c) : l \in {<<s_a>>, <<s_a, s_b>>}, c \in BOOLEAN}

StringsRoot == [byval |-> TRUE, p |-> 0, cls |-> NoClass, v |-> StringsV(<<>>)]

\* the documents read into a container of std::shared_ptr<A>: arrays of
\* objects with "@id" 1 or 2 or without, references to 1, and nulls, an id
\* being given to one object at most
MaxShared == 3
s_2 == <<"2">>
SharedObj(id, x) == Braced(<<Pair(n_id, Quoted(id)), Pair(n_x, Quoted(x))>>)
SharedItems ==
    {SharedObj(s_1, s_a), SharedObj(s_2, s_b), Braced(<<Pair(n_x, Quoted(s_c))>>),
     Quoted(<<"@">> \o s_1), s_null}
SharedDocs ==
    {LBracket \o Joined(items, <<",">>) \o RBracket :
        items \in {l \in UNION {[1..n -> SharedItems] : n \in 1..MaxShared} :
                      \A i, j \in DOMAIN l :
                          (i # j /\ l[i] = l[j]) => l[i] \in {Quoted(<<"@">> \o s_1), s_null}}}
SharedRoot(k) == [byval |-> TRUE, p |-> 0, cls |-> NoClass, v |-> SharedV(k)]

\* the documents that a session reads first and last, and the documents
\* that it reads in between: one that tags an object, one that ends in the
\* middle of a triple-quoted string, one that ends in a nested object, one
\* that leaves a warning
RefDoc == Braced(<<Pair(n_x, Quoted(s_a)), Pair(n_next, Quoted(<<"@">> \o s_1))>>)
PhoneDoc == Braced(<<Pair(n_type, Quoted(s_home)), Pair(n_number, Quoted(s_1))>>)
OpenString == LBrace \o Pair(n_type, <<"\"", "\"", "\"", "a", "b">>)
OpenNested == LBrace \o Pair(n_x, Quoted(s_a)) \o <<",">> \o Pair(n_next, LBrace)
                \o Pair(n_x, Quoted(s_b)) \o <<",">>

SessionInputs ==
    {[doc |-> RefDoc, cls |-> c_A], [doc |-> IdDoc(s_1, s_1), cls |-> c_A],
     [doc |-> PhoneDoc, cls |-> c_P]}

BetweenInputs ==
    {[doc |-> IdDoc(s_1, s_1), cls |-> c_A], [doc |-> OpenString, cls |-> c_P],
     [doc |-> OpenNested, cls |-> c_A],
     [doc |-> UnknownMemberDoc(0, Quoted(s_x)), cls |-> c_P]}

\* the strings, numbers and booleans that are written alone in a document,
\* and the value of a new variable of the type
ScalarValues ==
    {StringV(s_a), StringV(s_home), IntV(5), IntV(0 - 3), BoolV(TRUE), BoolV(FALSE)}
    \cup {StringsV(l) : l \in StringLists}

defaultScalar(k) ==
    IF k = "string" THEN StringV(<<>>)
    ELSE IF k = "strings" THEN StringsV(<<>>)
    ELSE IF k = "int" THEN IntV(0) ELSE BoolV(FALSE)

SyntaxModes == {Strict, Comments, Relaxed}

(***************************************************************************)
(* The registry while it is declared (class JsonClasses and its            *)
(* ObjectClass descriptors).  metas are the descriptors in the order of    *)
(* their creation; classnames_ and classindexes_ map a class name and a    *)
(* C++ type to a descriptor; handled is what the error handler was given;  *)
(* cur is the descriptor that the last defclass returned, on which the     *)
(* calls of member and extends that follow it in the chain are made.       *)
(***************************************************************************)
MaxCalls == 5

t_Contact == "Contact"
t_PhotoContact == "PhotoContact"
Types == {t_Contact, t_PhotoContact}
ClassNames == {"Contact", "PhotoContact"}
MemberNames == {"firstname1", "image"}

\* std::is_base_of<Super, T> for the types above, T itself left out
is_base_of(Super, T) == Super = t_Contact /\ T = t_PhotoContact

JsonClassesNew ==
    [metas |-> <<>>, classindexes_ |-> EmptyMap, classnames_ |-> EmptyMap,
     jsonerror_ |-> "OK", handled |-> <<>>, cur |-> 0, ncalls |-> 0]

\* new ObjectClass<T>(*this, classname, creator)
ObjectClassNew(T, classname) ==
    [type |-> T, classname_ |-> classname, superclasses_ |-> <<>>,
     members_ |-> <<>>, membermap_ |-> {}]

\* JsonClasses::error: the error is recorded and handed to the handler;
\* nothing is thrown
classesError(cs, type, arg, where) ==
    [cs EXCEPT !.jsonerror_ = type,
               !.handled = Append(@, [type |-> type, arg |-> arg, where |-> where])]

\* JsonClasses::getClass(const std::string&) on the registry cs: 0 is the
\* null pointer
getClassNamed(cs, classname) ==
    IF classname \in DOMAIN cs.classnames_ THEN cs.classnames_[classname] ELSE 0

\* JsonClasses::getClass(const std::type_info&) on the registry cs
getClassTyped(cs, T) ==
    IF T \in DOMAIN cs.classindexes_ THEN cs.classindexes_[T] ELSE 0

\* the descriptor that defclass creates and stores after the test of the
\* name
defclassStore(cs, T, classname, cl) ==
    [cs EXCEPT !.metas = Append(@, ObjectClassNew(T, classname)),
               !.classnames_ = (classname :> cl) @@ @,
               !.classindexes_ = (T :> cl) @@ @,
               !.cur = cl, !.ncalls = @ + 1]

\* JsonClasses::defclass<T>(classname, creator)
defclass(cs, T, classname) ==
    defclassStore(IF getClassNamed(cs, classname) # 0
                  THEN classesError(cs, "RedefinedClass", classname, "defclass()")
                  ELSE cs,
                  T, classname, Len(cs.metas) + 1)

\* ObjectClass::getMember on the descriptor d
getMember(cs, d, name) == name \in cs.metas[d].membermap_

\* ObjectClass::addMember on the descriptor d
addMember(cs, d, name) ==
    IF getMember(cs, d, name)
    THEN classesError(cs, "RedefinedMember", <<name, cs.metas[d].classname_>>, "member()")
    ELSE [cs EXCEPT !.metas[d].members_ = Append(@, name),
                    !.metas[d].membermap_ = @ \cup {name}]

\* ObjectClass::member(name, ...) in the chain of the last defclass
member(cs, name) == [addMember(cs, cs.cur, name) EXCEPT !.ncalls = @ + 1]

\* the end of ObjectClass::extends once the descriptor c of the
\* superclass is found
extendsWith(cs, d, c) ==
    IF \E i \in 1..Len(cs.metas[d].superclasses_) : cs.metas[d].superclasses_[i] = c
    THEN classesError(cs, "RedefinedSuperclass",
                      <<cs.metas[c].classname_, cs.metas[d].classname_>>, "extends()")
    ELSE [cs EXCEPT !.metas[d].superclasses_ = Append(@, c)]

\* ObjectClass::extends<Super>() in the chain of the last defclass
extends(cs, Super) ==
    [(IF getClassTyped(cs, Super) = 0
      THEN classesError(cs, "UnknownSuperclass",
                        <<Super, cs.metas[cs.cur].classname_>>, "extends()")
      ELSE extendsWith(cs, cs.cur, getClassTyped(cs, Super)))
     EXCEPT !.ncalls = @ + 1]

\* the names that ObjectClass::writeMembers of the descriptor d writes,
\* in order: the members of the superclasses first, then its own
RECURSIVE membersWritten(_, _)
RECURSIVE supersWritten(_, _, _)
supersWritten(cs, supers, i) ==
    IF i > Len(supers) THEN <<>>
    ELSE membersWritten(cs, supers[i]) \o supersWritten(cs, supers, i + 1)

membersWritten(cs, d) ==
    supersWritten(cs, cs.metas[d].superclasses_, 1) \o cs.metas[d].members_

(***************************************************************************)
(* The programs.  "test" is test() of tests/tests.cpp and the end of main  *)
(* of examples/contact_special_cases.cpp: setSharing, write the graph,     *)
(* read the file into a null pointer, write the copy.  "readdoc" reads a   *)
(* document into a null pointer to P after setSyntax.  pc is where the     *)
(* program is: "idle" before the first operation, "write1", "read" and     *)
(* "write2" inside one, "written" and "read2" between two, "wfailed" and   *)
(* "rfailed" after the return false that follows a failed operation,       *)
(* "done" at the end, "aborted" when the process was terminated.           *)
(***************************************************************************)
VARIABLES prog, pc, js, heap, stack, root, copy, file1, file2, wlog, rlog, result, ub, abort,
          classes, prev, target

vars == <<prog, pc, js, heap, stack, root, copy, file1, file2, wlog, rlog, result, ub, abort,
          classes, prev, target>>

NoRoot == [byval |-> FALSE, p |-> 0, cls |-> c_P]

Init ==
    /\ pc = "idle"
    /\ js = JsonSerialNew
    /\ stack = <<>>
    /\ copy = 0
    /\ wlog = <<>>
    /\ rlog = <<>>
    /\ result = TRUE
    /\ ub = FALSE
    /\ abort = ""
    /\ classes = JsonClassesNew
    /\ prev = <<>>
    /\ \/ /\ prog = "test"
          /\ file1 = <<>>
          /\ file2 = <<>>
          /\ target = StringV(<<>>)
          /\ \E g \in Graphs : heap = g.heap /\ root = g.root
       \/ /\ prog = "indent"
          /\ file1 = <<>>
          /\ file2 = <<>>
          /\ target = StringV(<<>>)
          /\ \E g \in IndentGraphs : heap = g.heap /\ root = g.root
       \/ /\ prog = "scalar"
          /\ file1 = <<>>
          /\ file2 = <<>>
          /\ heap = <<>>
          /\ \E v \in ScalarValues :
                /\ root = [byval |-> TRUE, p |-> 0, cls |-> NoClass, v |-> v]
                /\ target = defaultScalar(v.k)
       \/ /\ prog = "readdoc"
          /\ \/ \E d \in DocInputs : file1 = d.doc /\ root = [NoRoot EXCEPT !.cls = d.cls]
             \/ \E d \in StringsDocs : file1 = d /\ root = StringsRoot
             \/ \E d \in SharedDocs, k \in SharedKinds : file1 = d /\ root = SharedRoot(k)
          /\ file2 = <<>>
          /\ target = StringV(<<>>)
          /\ heap = <<>>
       \/ /\ prog = "register"
          /\ file1 = <<>>
          /\ file2 = <<>>
          /\ target = StringV(<<>>)
          /\ heap = <<>>
          /\ root = NoRoot
       \/ /\ prog = "session"
          /\ \E d \in SessionInputs : file1 = d.doc /\ root = [NoRoot EXCEPT !.cls = d.cls]
          /\ \E b \in BetweenInputs : file2 = b.doc
          /\ target = StringV(<<>>)
          /\ heap = <<>>

\* the machine made of the variables, with the log of the operation
Machine(log) ==
    [js |-> js, heap |-> heap, stack |-> stack, copy |-> copy, log |-> log,
     thrown |-> "", result |-> result, ub |-> ub, var |-> target]

\* JsonSerial::setSharing
SetSharing(mode) ==
    /\ pc = "idle"
    /\ prog = "test"
    /\ js' = [js EXCEPT !.sharing_ = mode]
    /\ UNCHANGED <<prog, pc, heap, stack, root, copy, file1, file2, wlog, rlog, result, ub, abort,
                 classes, prev, target>>

\* JsonSerial::setIndent
SetIndent(tabchar, tabcount) ==
    /\ pc = "idle"
    /\ prog = "indent"
    /\ js' = [js EXCEPT !.tabchar_ = tabchar, !.indent_ = tabcount]
    /\ UNCHANGED <<prog, pc, heap, stack, root, copy, file1, file2, wlog, rlog, result, ub, abort,
                 classes, prev, target>>

\* JsonSerial::setSyntax
SetSyntax(mode) ==
    /\ pc = "idle"
    /\ prog \in {"readdoc", "scalar"} \/ (prog = "session" /\ prev = <<>>)
    /\ js' = [js EXCEPT !.allow_ = mode]
    /\ UNCHANGED <<prog, pc, heap, stack, root, copy, file1, file2, wlog, rlog, result, ub, abort,
                 classes, prev, target>>

\* what a read past the end of tabs_ can find or do
MemoryBytes == {" ", "x"}
PastEndOutcomes == MemoryBytes \cup {"crash"}

overread(out) == \E i \in DOMAIN out : out[i] = PastEnd

\* the variables after a step of a write that left the machine m; a step
\* that read past the end of tabs_ wrote what the memory held, or crashed
Written(m0) ==
    \E o \in PastEndOutcomes :
        LET over == overread(m0.js.out_)
            m == writeEnd([m0 EXCEPT !.js.out_ =
                                         [i \in DOMAIN @ |-> IF @[i] = PastEnd THEN o ELSE @[i]]])
        IN  IF over /\ o = "crash"
            THEN /\ pc' = "aborted"
                 /\ abort' = "crash"
                 /\ ub' = TRUE
                 /\ UNCHANGED <<prog, js, heap, stack, root, copy, file1, file2, wlog, rlog,
                                result, classes, prev, target>>
            ELSE /\ js' = m.js
                 /\ stack' = m.stack
                 /\ wlog' = m.log
                 /\ result' = m.result
                 /\ pc' = IF m.stack # <<>> THEN (IF pc = "idle" THEN "write1"
                                                  ELSE IF pc = "read2" THEN "write2" ELSE pc)
                          ELSE IF ~m.result THEN "wfailed"
                          ELSE IF pc \in {"idle", "write1"} THEN "written"
                          ELSE "done"
                 /\ file1' = IF pc \in {"idle", "write1"} THEN m.js.out_ ELSE file1
                 /\ file2' = IF pc \in {"read2", "write2"} THEN m.js.out_ ELSE file2
                 /\ ub' = (ub \/ over)
                 /\ UNCHANGED <<prog, heap, root, copy, rlog, abort, classes, prev, target>>

\* JsonSerial::write(object, out) up to the first member of the object:
\* the graph from its root, and later the copy from the pointer read
BeginWrite ==
    /\ \/ prog = "test" /\ pc \in {"idle", "read2"}
       \/ prog = "indent" /\ pc = "idle"
       \/ prog = "scalar" /\ pc = "idle"
    /\ LET m0 == [Machine(<<>>) EXCEPT !.js = reset(js, 1, FALSE, <<>>)]
           p == IF pc = "idle" THEN root.p ELSE copy
       IN  Written(IF prog = "scalar" THEN writeValue(m0, root.v, NoClass)
                   ELSE IF pc = "idle" /\ root.byval
                   THEN writeValue(m0, ObjectV(p), root.cls)
                   ELSE writeValue(m0, PtrV(p), root.cls))

\* the next member or item of the object or array being written
WriteStep ==
    /\ pc \in {"write1", "write2"}
    /\ Len(stack) <= MaxLevel
    /\ Written(IF stack[Len(stack)].k = "object"
               THEN writeMembers(Machine(wlog))
               ELSE writeArray(Machine(wlog)))

\* what the caller of a read sees of it: the value returned, the error
\* recorded, the events without the addresses, and the object made, its
\* pointers taken from its own place
Outcome(m) ==
    [result |-> m.result,
     error |-> m.js.jsonerror_,
     events |-> [i \in DOMAIN m.log |-> [e |-> m.log[i].e, id |-> m.log[i].id, s |-> m.log[i].s]],
     object |-> IF m.copy = 0 THEN <<>>
                ELSE LET f == m.heap[m.copy].f
                     IN  <<m.heap[m.copy].cls,
                           [n \in DOMAIN f |->
                               [f[n] EXCEPT !.p = IF @ = 0 THEN 0 ELSE @ - m.copy + 1]]>>]

\* the variables after a step of a read that left the machine m
Read(m0) ==
    LET m == readEnd(m0)
    IN  /\ js' = m.js
        /\ heap' = m.heap
        /\ stack' = m.stack
        /\ copy' = m.copy
        /\ rlog' = m.log
        /\ result' = m.result
        /\ ub' = m.ub
        /\ abort' = IF m.thrown \in {"", "JsonError"} THEN "" ELSE m.thrown
        /\ pc' = IF m.thrown \notin {"", "JsonError"} THEN "aborted"
                 ELSE IF m.stack # <<>> THEN "read"
                 ELSE IF prog \in {"readdoc", "scalar"} THEN "done"
                 ELSE IF prog = "session" THEN (IF Len(prev) = 2 THEN "done" ELSE "idle")
                 ELSE IF m.result THEN "read2"
                 ELSE "rfailed"
        /\ prev' = IF prog = "session" /\ m.stack = <<>> /\ m.thrown \in {"", "JsonError"}
                   THEN Append(prev, Outcome(m))
                   ELSE prev
        /\ target' = m.var
        /\ UNCHANGED <<prog, root, file1, file2, wlog, classes>>

\* JsonSerial::read(object, in) up to the first pair of the object
BeginRead ==
    /\ \/ prog \in {"test", "scalar"} /\ pc = "written"
       \/ prog = "readdoc" /\ pc = "idle"
       \/ prog = "session" /\ pc = "idle"
    /\ IF prog = "session" /\ Len(prev) = 1
       THEN Read(readBegin(Machine(<<>>), file2,
                           (CHOOSE b \in BetweenInputs : b.doc = file2).cls))
       ELSE Read(readBegin(Machine(<<>>), file1, IF root.cls = NoClass THEN root.v.k ELSE root.cls))

\* the next pair of the object or item of the array being read
ReadStep ==
    /\ pc = "read"
    /\ \E ubo \in {"overrun", "crash"} :
          Read(IF stack[Len(stack)].k = "object"
               THEN readObjectTurn(Machine(rlog), ubo)
               ELSE readArrayTurn(Machine(rlog), ubo))

\* the variables that a call on the registry leaves alone
engineVars ==
    <<prog, pc, js, heap, stack, root, copy, file1, file2, wlog, rlog, result, ub, abort, prev,
      target>>

\* defclass<T>(classname) in the constructor of the registry
Defclass(T, classname) ==
    /\ prog = "register"
    /\ classes.ncalls < MaxCalls
    /\ classes' = defclass(classes, T, classname)
    /\ UNCHANGED engineVars

\* .member(name, ...) on the class that the last defclass returned
DeclareMember(name) ==
    /\ prog = "register"
    /\ classes.ncalls < MaxCalls
    /\ classes.cur # 0
    /\ classes' = member(classes, name)
    /\ UNCHANGED engineVars

\* .extends<Super>() on the class that the last defclass returned
Extends(Super) ==
    /\ prog = "register"
    /\ classes.ncalls < MaxCalls
    /\ classes.cur # 0
    /\ is_base_of(Super, classes.metas[classes.cur].type)
    /\ classes' = extends(classes, Super)
    /\ UNCHANGED engineVars

Next ==
    \/ \E T \in Types, classname \in ClassNames : Defclass(T, classname)
    \/ \E name \in MemberNames : DeclareMember(name)
    \/ \E Super \in Types : Extends(Super)
    \/ \E mode \in BOOLEAN : SetSharing(mode)
    \/ \E mode \in SyntaxModes : SetSyntax(mode)
    \/ \E tabchar \in IndentChars, tabcount \in IndentCounts : SetIndent(tabchar, tabcount)
    \/ BeginWrite
    \/ WriteStep
    \/ BeginRead
    \/ ReadStep

Spec == Init /\ [][Next]_vars


(***************************************************************************)
(* Graphs compared: the object that a path of members leads to.            *)
(***************************************************************************)
MaxPath == 3

\* a step of a path: a pointer member or an object held by value (idx = 0),
\* or the item idx of a list
PathSteps ==
    {[name |-> n, idx |-> 0] : n \in {n_next, n_inner, n_made}}
    \cup {[name |-> n_kids, idx |-> i] : i \in 1..MaxKids}

Paths == UNION {[1..n -> PathSteps] : n \in 0..MaxPath}

\* paths that end at a pointer: the root, a pointer member, a list item
PointerPaths == {pt \in Paths : pt = <<>> \/ pt[Len(pt)].name # n_inner}

\* paths that go through pointers only
PointersOnlyPaths == {pt \in Paths : \A i \in 1..Len(pt) : pt[i].name # n_inner}

follow(h, p, step) ==
    IF p = 0 \/ step.name \notin DOMAIN h[p].f THEN 0
    ELSE IF step.idx = 0 THEN h[p].f[step.name].p
    ELSE IF step.idx <= Len(h[p].f[step.name].l) THEN h[p].f[step.name].l[step.idx]
    ELSE 0

RECURSIVE deref(_, _, _, _)
deref(h, p, path, i) ==
    IF i > Len(path) THEN p ELSE deref(h, follow(h, p, path[i]), path, i + 1)

\* the object of the graph written, and of the copy read, at the end of a path
Original(path) == deref(heap, root.p, path, 1)
Copied(path) == deref(heap, copy, path, 1)

\* the objects one pointer or one containment away from the object k
Successors(h, k) == {follow(h, k, st) : st \in PathSteps} \ {0}

RECURSIVE ReachableIn(_, _, _)
ReachableIn(h, S, fuel) ==
    IF fuel = 0 THEN S
    ELSE ReachableIn(h, S \cup UNION {Successors(h, k) : k \in S}, fuel - 1)

\* the objects of the graph written
Written1 == IF root.p = 0 THEN {} ELSE ReachableIn(heap, {root.p}, Len(heap))

Cyclic == \E k \in Written1 : k \in ReachableIn(heap, Successors(heap, k), Len(heap))

Events(log, e) == {i \in 1..Len(log) : log[i].e = e}

Writing == pc \in {"write1", "write2"}

(***************************************************************************)
(* C1: with sharing on, reading back what was written preserves pointer    *)
(* identity: whenever two pointers of the graph (the root, pointer         *)
(* members, list items) point to the same object, the corresponding        *)
(* pointers of the copy point to one and the same object; for a cycle      *)
(* a -> b -> a the copy satisfies a.next.next = a.                         *)
(***************************************************************************)
C1_PointerIdentity ==
    (prog = "test" /\ js.sharing_ /\ pc = "read2") =>
        \A p1 \in PointerPaths, p2 \in PointerPaths :
            (p1 # p2 /\ Original(p1) # 0 /\ Original(p1) = Original(p2)) =>
                (Copied(p1) # 0 /\ Copied(p1) = Copied(p2))

(***************************************************************************)
(* C2: with sharing on, a top-level write terminates with a finite output: *)
(* the address of every object whose members are being written is in       *)
(* object_to_id_, the brace form of an object is entered once at most,     *)
(* the depth of the open calls stays within the number of objects and      *)
(* lists of the graph, and the write that has begun returns.               *)
(***************************************************************************)
C2_Recorded ==
    (prog = "test" /\ js.sharing_ /\ Writing) =>
        /\ \A i \in 1..Len(stack) :
              stack[i].k = "object" => heap[stack[i].key].addr \in DOMAIN js.object_to_id_
        /\ \A i \in Events(wlog, "brace"), j \in Events(wlog, "brace") :
              wlog[i].key = wlog[j].key => i = j
        /\ Len(stack) <= 2 * Len(heap)
        /\ Len(stack) <= MaxLevel
        /\ Len(js.out_) <= 100 * Len(heap)

\* what is left to do of a write: the turns left in the loops of the open
\* calls (a list member counts for the turns of its writeArray as well),
\* and for every address not yet in object_to_id_ more than the turns of
\* any object
RECURSIVE MembersWork(_, _, _, _)
MembersWork(h, key, ms, i) ==
    IF i > Len(ms) THEN 1
    ELSE (IF ms[i].kind = "list" THEN Len(h[key].f[ms[i].name].l) + 2 ELSE 1)
         + MembersWork(h, key, ms, i + 1)

RECURSIVE StackWork(_, _, _)
StackWork(h, st, i) ==
    IF i > Len(st) THEN 0
    ELSE (IF st[i].k = "object" THEN MembersWork(h, st[i].key, st[i].ms, st[i].i)
          ELSE Len(st[i].items) - st[i].i + 2)
         + StackWork(h, st, i + 1)

RECURSIVE HeapWork(_, _)
HeapWork(h, k) ==
    IF k > Len(h) THEN 1
    ELSE MembersWork(h, k, allMembers(h[k].cls), 1) + HeapWork(h, k + 1)

WorkLeft(j, h, st) ==
    StackWork(h, st, 1)
    + HeapWork(h, 1) * Cardinality({h[k].addr : k \in 1..Len(h)} \ DOMAIN j.object_to_id_)

C2_WriteTerminates ==
    /\ []C2_Recorded
    /\ [][(prog = "test" /\ js.sharing_ /\ Writing) =>
             /\ stack # <<>>
             /\ WorkLeft(js', heap', stack') < WorkLeft(js, heap, stack)
             /\ (stack' = <<>> => pc' \in {"written", "done", "wfailed"})]_vars

\* a cyclic graph has been written with sharing on
C2_Witness ==
    /\ prog = "test" /\ js.sharing_ /\ pc = "written" /\ Cyclic
    /\ Events(wlog, "ref") # {}
    /\ result

(***************************************************************************)
(* C3: with sharing on, a top-level write emits every object of the graph  *)
(* in brace form exactly once, the n-th brace form carrying "@id" n, and   *)
(* every "@N" it emits stands for an object that was emitted in brace      *)
(* form before with that N.                                                *)
(***************************************************************************)
C3_OnceWithId ==
    (prog = "test" /\ js.sharing_ /\ pc = "written") =>
        /\ \A k \in Written1 :
              Cardinality({i \in Events(wlog, "brace") : wlog[i].key = k}) = 1
        /\ \A i \in Events(wlog, "brace") :
              wlog[i].id = Cardinality({j \in Events(wlog, "brace") : j <= i})
        /\ \A i \in Events(wlog, "ref") :
              \E j \in Events(wlog, "brace") :
                  j < i /\ wlog[j].key = wlog[i].key /\ wlog[j].id = wlog[i].id

\* the read of the file written has returned, failed, or ended the process
ReadBack == prog = "test" /\ pc \in {"read2", "rfailed", "aborted"}

\* the objects at the end of a path in the graph and in the copy are both
\* absent, or of the same class with the same strings, chars, pointers to
\* strings (null or not) and list lengths
SameAt(path) ==
    LET a == Original(path)
        b == Copied(path)
    IN  /\ a = 0 <=> b = 0
        /\ a # 0 =>
              /\ heap[a].cls = heap[b].cls
              /\ \A n \in DOMAIN heap[a].f :
                    /\ n \in DOMAIN heap[b].f
                    /\ heap[a].f[n].k = heap[b].f[n].k
                    /\ heap[a].f[n].s = heap[b].f[n].s
                    /\ Len(heap[a].f[n].l) = Len(heap[b].f[n].l)
                    /\ heap[a].f[n].k = "stringptr" => heap[a].f[n].p = heap[b].f[n].p

(***************************************************************************)
(* C4: reading back what was written succeeds and gives a graph that       *)
(* cannot be told from the graph written: along every path the same        *)
(* classes, the same field values (every char, every string, null and      *)
(* non-null pointers, pointers to strings included), the same containers.  *)
(***************************************************************************)
C4_RoundTrip ==
    ReadBack => (pc = "read2" /\ \A path \in Paths : SameAt(path))

(***************************************************************************)
(* C5: for an acyclic graph, writing the copy read from the file written   *)
(* gives that file again, byte for byte.                                   *)
(***************************************************************************)
C5_SecondWriteIdentical ==
    (prog = "test" /\ ~Cyclic /\ pc \in {"done", "wfailed", "rfailed", "aborted"}) =>
        (pc = "done" /\ file2 = file1)

(***************************************************************************)
(* C6: an instance of B behind a pointer to A is written with "@class" as  *)
(* the first member of its brace form, and reading it back through any     *)
(* pointer to A (a pointer member, a pointer member with a creator, a      *)
(* list item, the root) creates an instance of B with the members of A     *)
(* and of B populated.                                                     *)
(***************************************************************************)
C6_DerivedThroughBasePointer ==
    ReadBack =>
        /\ \A i \in Events(rlog, "pair") :
              rlog[i].s[1] = n_class =>
                  /\ i > 1
                  /\ rlog[i - 1].e = "pair"
                  /\ LBrace \in {rlog[i - 1].s[1], rlog[i - 1].s[2]}
        /\ \A path \in PointersOnlyPaths :
              (Original(path) # 0 /\ heap[Original(path)].cls = c_B) =>
                  /\ pc = "read2"
                  /\ Copied(path) # 0
                  /\ heap[Copied(path)].cls = c_B
                  /\ \A n \in {n_x, n_y} :
                        /\ n \in DOMAIN heap[Copied(path)].f
                        /\ heap[Copied(path)].f[n] = heap[Original(path)].f[n]

\* the read of a document has returned
DocRead == prog = "readdoc" /\ pc = "done"

\* the P that the read of a document created has these two strings
ReadP(type, number) ==
    /\ copy # 0
    /\ heap[copy].cls = c_P
    /\ heap[copy].f[n_type] = StringV(type)
    /\ heap[copy].f[n_number] = StringV(number)

UnknownMemberErrors(log) ==
    {i \in Events(log, "error") : log[i].s = "UnknownMember"}

\* the open call of readObject is about to read a pair whose name is no
\* member of the pinned class or of its superclasses, and no reserved name
AtUnknownMember ==
    /\ pc = "read"
    /\ stack[Len(stack)].k = "object"
    /\ js.good
    /\ LET r == readLine(js.in_, streamOf(js), TRUE, js.allow_)
           fr == stack[Len(stack)]
           cls == pinnedClass(fr, r.token1, r.token2)
       IN  /\ r.err = "OK" /\ r.found1 /\ r.found2
           /\ r.token1 # RBrace
           /\ ~(r.token1 # <<>> /\ r.token1[1] = "@")
           /\ cls # NoClass
           /\ (fr.obj # 0 \/ createdClass(fr, cls) # NoClass)
           /\ ~findMember(cls, r.token1).found

(***************************************************************************)
(* C7: a pair whose name is no member of the pinned class or of its        *)
(* superclasses gives exactly one error, a non-fatal UnknownMember, the    *)
(* same call of readObject goes on with the next pair, and the top-level   *)
(* read returns false.                                                     *)
(***************************************************************************)
C7_Reported ==
    \/ prog = "readdoc" /\ pc \in {"read", "done"}
    \/ prog = "test" /\ pc \in {"read", "read2", "rfailed"}

C8_UnknownValueSkipped ==
    (DocRead /\ file1 \in UnknownMemberDocs) =>
        /\ ReadP(s_home, s_1)
        /\ Cardinality(Events(rlog, "error")) = 1
        /\ Cardinality(UnknownMemberErrors(rlog)) = 1
        /\ js.pos = Len(file1)

(***************************************************************************)
(* C9: under Relaxed the document                                          *)
(*     {                                                                   *)
(*       type: home  // phone                                              *)
(*       number: "1-2"                                                     *)
(*     }                                                                   *)
(* reads as type = "home" and number = "1-2", as does the document with    *)
(* the comment replaced by blanks: the newline that ends the line comment  *)
(* separates the two pairs.                                                *)
(***************************************************************************)
C9_LineCommentThenNewline ==
    (DocRead /\ js.allow_ = Relaxed /\ file1 \in {RelaxedDoc, RelaxedDocBlank}) =>
        (result /\ ReadP(s_home, s_12))

\* P(type = "home", number = "212") has been written by value with
\* sharing off and the indentation (space, 2)
WroteHome212 ==
    /\ prog = "test" /\ pc = "written"
    /\ ~js.sharing_ /\ js.indent_ = 2 /\ js.tabchar_ = " "
    /\ root = [byval |-> TRUE, p |-> 1, cls |-> c_P]
    /\ heap[1].f[n_type] = StringV(s_home)
    /\ heap[1].f[n_number] = StringV(s_212)

\* {
\*   "type": "home",
\*   "number": "212"
\* }
Home212Lines ==
    <<"{", "\n", " ", " ">> \o Quoted(n_type) \o <<":", " ">> \o Quoted(s_home)
    \o <<",", "\n", " ", " ">> \o Quoted(n_number) \o <<":", " ">> \o Quoted(s_212)
    \o <<"\n", "}">>

(***************************************************************************)
(* C10, as claimed: the stream holds the four lines of the object, one     *)
(* member a line indented by two spaces, a comma and a newline between     *)
(* the members, and exactly one newline after the closing brace.           *)
(***************************************************************************)
C10_OneNewline == WroteHome212 => file1 = Home212Lines \o <<"\n">>

(***************************************************************************)
(* C10, amended: the stream holds the four lines of the object, one        *)
(* member a line indented by two spaces, a comma and a newline between     *)
(* the members, and exactly two newlines after the closing brace.          *)
(***************************************************************************)
C10_TwoNewlines == WroteHome212 => (result /\ file1 = Home212Lines \o <<"\n", "\n">>)

C10_Witness == WroteHome212 /\ result /\ Len(file1) = Len(Home212Lines) + 2


(***************************************************************************)
(* The registry.                                                           *)
(***************************************************************************)
\* the descriptors that were created under the name classname, in order
DescriptorsNamed(cs, classname) ==
    {d \in 1..Len(cs.metas) : cs.metas[d].classname_ = classname}

\* C11: a defclass under a name that is taken fails with RedefinedClass
\* and leaves the registry as it was: looking a name up returns the
\* descriptor that was registered first under it, and every descriptor
\* created under a taken name was answered with a RedefinedClass error.
C11_FirstDescriptorKept ==
    prog = "register" =>
        \A classname \in DOMAIN classes.classnames_ :
            /\ \A d \in DescriptorsNamed(classes, classname) :
                  getClassNamed(classes, classname) <= d
            /\ Cardinality(DescriptorsNamed(classes, classname)) - 1 =
                  Cardinality({i \in 1..Len(classes.handled) :
                                  /\ classes.handled[i].type = "RedefinedClass"
                                  /\ classes.handled[i].arg = classname})


\* C12: in every class the names of the effective members (the members
\* inherited through extends and its own) are pairwise different, after
\* any sequence of defclass, extends and member: no object is written with
\* two members of one name.  Stated for the registries in which every class
\* name was declared once.
C12_MemberNamesUnique ==
    (prog = "register" /\ \A i \in 1..Len(classes.handled) :
                             classes.handled[i].type # "RedefinedClass") =>
        \A d \in 1..Len(classes.metas) :
            \A i, j \in 1..Len(membersWritten(classes, d)) :
                membersWritten(classes, d)[i] = membersWritten(classes, d)[j] => i = j


(***************************************************************************)
(* The order of the members.                                               *)
(***************************************************************************)
\* the names of the members of a class in the order of the declarations:
\* for each superclass in the order of extends, its members in this same
\* order, then the members the class declares itself
RECURSIVE DeclaredOrder(_)
RECURSIVE DeclaredOrderOf(_, _)
DeclaredOrderOf(supers, i) ==
    IF i > Len(supers) THEN <<>>
    ELSE DeclaredOrder(supers[i]) \o DeclaredOrderOf(supers, i + 1)

DeclaredOrder(cls) ==
    DeclaredOrderOf(classnames_[cls].supers, 1)
    \o [i \in 1..Len(classnames_[cls].members) |-> classnames_[cls].members[i].name]

\* the names of the members written for the object key, in order
MembersOf(log, key) ==
    LET at == {i \in Events(log, "member") : log[i].key = key}
        nth(j) == CHOOSE i \in at : Cardinality({h \in at : h < i}) = j - 1
    IN  [j \in 1..Cardinality(at) |-> log[nth(j)].s]

\* how many times the object key was written in brace form
BracesOf(log, key) ==
    Cardinality({i \in 1..Len(log) : log[i].e = "brace" /\ log[i].key = key})

\* C13: an object is written with the members of its superclasses first,
\* superclass by superclass in the order of extends and recursively, then
\* with its own members in the order of their declaration; this is so in
\* the first file and in the second (every finished write, each time the
\* object is written in brace form).
C13_MemberOrder ==
    (prog = "test" /\ pc \in {"written", "done"}) =>
        \A key \in 1..Len(heap) :
            LET names == MembersOf(wlog, key)
                order == DeclaredOrder(heap[key].cls)
            IN  /\ Len(names) = BracesOf(wlog, key) * Len(order)
                /\ \A j \in 1..Len(names) : names[j] = order[((j - 1) % Len(order)) + 1]

C13_Witness ==
    /\ prog = "test"
    /\ pc = "done"
    /\ heap[copy].cls = c_D
    /\ file1 = file2
    /\ MembersOf(wlog, copy) = <<n_x, n_next, n_y, n_image, n_z>>


(***************************************************************************)
(* References to tagged objects.                                           *)
(***************************************************************************)
\* the number that a text of decimal digits denotes
RECURSIVE DecimalValue(_)
DecimalValue(s) ==
    IF s = <<>> THEN 0 ELSE 10 * DecimalValue(SubSeq(s, 1, Len(s) - 1)) + DigitVal(s[Len(s)])

\* the read of the document {"@id":"N1","x":"a","next":"@N2"} into a
\* pointer to A has ended
IdDocRead(N1, N2) ==
    prog = "readdoc" /\ root.cls = c_A /\ file1 = IdDoc(N1, N2) /\ pc \in {"done", "aborted"}

\* C14: "@N" where an object is expected binds the target to the object
\* tagged "@id": "N" earlier in the document, N read as a decimal number in
\* both places, and reads no further token (the closing brace that follows
\* ends the object); when no object was tagged N the read fails with
\* InvalidID.
C14_ReferenceBinds ==
    \A N1, N2 \in IdTexts :
        IdDocRead(N1, N2) =>
            IF DecimalValue(N1) = DecimalValue(N2)
            THEN /\ pc = "done" /\ result
                 /\ copy # 0
                 /\ heap[copy].f[n_next].p = copy
                 /\ heap[copy].f[n_x] = StringV(s_a)
            ELSE /\ pc = "done" /\ ~result
                 /\ js.jsonerror_.type = "InvalidID"


(***************************************************************************)
(* Objects that cannot be made.                                            *)
(***************************************************************************)
\* the read of a document into a pointer of class cls has ended
DocReadInto(cls, doc) ==
    prog = "readdoc" /\ root.cls = cls /\ file1 = doc /\ pc \in {"done", "aborted"}

\* C15: when an object has to be made, a pinned class without a creator
\* thunk fails the read with AbstractClass, and a thunk that returns null
\* fails it with CantCreateObject.
C15_CreationFailures ==
    /\ DocReadInto(c_F, ImageDoc) =>
           /\ ~classnames_[c_F].creator
           /\ pc = "done" /\ ~result /\ js.jsonerror_.type = "AbstractClass"
    /\ DocReadInto(c_Q, TypeDoc) =>
           /\ classnames_[c_Q].creator /\ thunkMakes(c_Q) = NoClass
           /\ pc = "done" /\ ~result /\ js.jsonerror_.type = "CantCreateObject"


(***************************************************************************)
(* The transient state.                                                    *)
(***************************************************************************)
\* the ids of the braces of a write, in the order of the document
IdsWritten(log) ==
    {log[i].id : i \in {j \in Events(log, "brace") : log[j].id # 0}}

\* C16: a top-level read or write starts from a clean transient state
\* whatever happened before on the engine: the read of a document gives
\* what it gave on the new engine after any read in between (one that
\* succeeded and tagged an object, failed in the middle of a string or of a
\* nested object, or left a warning), and the ids of every write are 1, 2,
\* ... from 1.
C16_CleanStart ==
    /\ (prog = "session" /\ Len(prev) = 3) => prev[3] = prev[1]
    /\ (prog = "test" /\ pc \in {"written", "done"}) =>
           IdsWritten(wlog) = 1..Cardinality(IdsWritten(wlog))

\* the reference @1 is read again after a document that tagged an object 1
\* and fails again with InvalidID
C16_Witness ==
    /\ prog = "session" /\ Len(prev) = 3 /\ pc = "done"
    /\ file1 = RefDoc /\ file2 = IdDoc(s_1, s_1)
    /\ prev[2].result /\ ~prev[3].result /\ prev[3].error.type = "InvalidID"
    /\ js.id_to_object_ = EmptyMap


(***************************************************************************)
(* The errors of a call.                                                   *)
(***************************************************************************)
\* a top-level call has ended, by a return or by an exception that left it
CallEnded ==
    \/ pc \in {"done", "rfailed", "read2", "written", "wfailed", "aborted"}
    \/ prog = "session" /\ pc = "idle" /\ prev # <<>>

\* the events of the last call
LastLog ==
    IF pc \in {"written", "wfailed"} \/ (prog = "test" /\ pc = "done") THEN wlog ELSE rlog

FatalAborts(log) ==
    \A i \in Events(log, "error") : log[i].key = 1 => i = Len(log) /\ stack = <<>> /\ ~result

\* C17: a fatal error ends the call at once (it is the last event of the
\* call: no pair is read and no member written after it) and the call
\* returns failure; a call returns success exactly when it reported no
\* error, fatal or not, and getError() is null exactly in that case.
C17_SuccessIffNoError ==
    /\ FatalAborts(IF pc \in {"write1", "write2"} THEN wlog ELSE LastLog)
    /\ CallEnded =>
           /\ result <=> Events(LastLog, "error") = {}
           /\ js.jsonerror_ = NoError <=> Events(LastLog, "error") = {}


(***************************************************************************)
(* Scalar members.                                                         *)
(***************************************************************************)
\* the text is an integer literal: an optional minus sign, then digits only
IsIntLiteral(t) ==
    LET d == IF t # <<>> /\ t[1] = "-" THEN Tail(t) ELSE t
    IN  d # <<>> /\ \A i \in 1..Len(d) : isdigit(d[i])

IntLiteralValue(t) ==
    IF t[1] = "-" THEN 0 - DecimalValue(Tail(t)) ELSE DecimalValue(t)

\* the name occurs in the text
Mentions(text, name) ==
    \E i \in 1..Len(text) : i + Len(name) - 1 <= Len(text)
                            /\ SubSeq(text, i, i + Len(name) - 1) = name

InvalidValueFor(name) ==
    /\ pc = "done" /\ ~result
    /\ js.jsonerror_.type = "InvalidValue"
    /\ Mentions(js.jsonerror_.arg, name)

\* C18: a scalar member read from a token that is not a literal of its type
\* raises InvalidValue with the name of the member and the read fails; a
\* malformed token is never taken for a value.  The tokens are those that
\* reach the reader of the member: quoted ones, and unquoted ones when the
\* dialect has NoQuotes.
C18_MalformedScalar ==
    \A t \in NumTexts, w \in BoolTexts, q \in BOOLEAN :
        (DocReadInto(c_S, ScalarDoc(t, w, q)) /\ (q \/ Allows(js.allow_, NoQuotes))) =>
            IF ~IsIntLiteral(t) THEN InvalidValueFor(n_num)
            ELSE IF w \notin {s_true, s_false} THEN InvalidValueFor(n_isalive)
            ELSE /\ pc = "done" /\ result
                 /\ heap[copy].f[n_num] = IntV(IntLiteralValue(t))
                 /\ heap[copy].f[n_isalive] = BoolV(w = s_true)


(***************************************************************************)
(* Unquoted values.                                                        *)
(***************************************************************************)
\* the place after the digits of t from i on
RECURSIVE DigitsEnd(_, _)
DigitsEnd(t, i) == IF i <= Len(t) /\ isdigit(t[i]) THEN DigitsEnd(t, i + 1) ELSE i

\* the place after the exponent of t at c, c itself when the exponent has
\* no digit
ExponentEnd(t, c) ==
    LET s == IF c + 1 <= Len(t) /\ t[c + 1] \in {"+", "-"} THEN c + 2 ELSE c + 1
    IN  IF DigitsEnd(t, s) > s THEN DigitsEnd(t, s) ELSE c

\* the places after the fraction that starts at b and the exponent after it
NumberEndFrom(t, c) ==
    IF c <= Len(t) /\ t[c] \in {"e", "E"} THEN ExponentEnd(t, c) ELSE c

FractionEnd(t, b) ==
    IF b <= Len(t) /\ t[b] = "." /\ DigitsEnd(t, b + 1) > b + 1 THEN DigitsEnd(t, b + 1) ELSE b

\* a number: an optional minus sign, digits, an optional fraction, an
\* optional exponent, and nothing else
IsNumberLiteral(t) ==
    LET a == IF t # <<>> /\ t[1] = "-" THEN 2 ELSE 1
    IN  /\ DigitsEnd(t, a) > a
        /\ NumberEndFrom(t, FractionEnd(t, DigitsEnd(t, a))) = Len(t) + 1

\* C19: without NoQuotes an unquoted value is accepted only if it is null,
\* true, false or a number (optional minus sign, digits, optional fraction,
\* optional exponent); every other unquoted value raises InvalidValue.
C19_UnquotedValues ==
    \A token \in UnquotedTokens :
        (DocReadInto(c_P, UnquotedDoc(token)) /\ ~Allows(js.allow_, NoQuotes)) =>
            IF token \in {s_null, s_true, s_false} \/ IsNumberLiteral(token)
            THEN pc = "done" /\ result /\ heap[copy].f[n_type] = StringV(token)
            ELSE pc = "done" /\ ~result /\ js.jsonerror_.type = "InvalidValue"


(***************************************************************************)
(* Scalars at the top level.                                               *)
(***************************************************************************)
\* C20: a top-level read whose first token is not { reads it as a scalar
\* under every dialect: the document that the write of a number, a boolean
\* or a string made is read into a variable of the same type with success,
\* and the variable holds the value written.
C20_ScalarRoundTrip ==
    (prog = "scalar" /\ pc \in {"done", "aborted"}) =>
        pc = "done" /\ result /\ target = root.v


(***************************************************************************)
(* The exceptions that leave a call.                                       *)
(***************************************************************************)
\* C26: every failure of a top-level read or write is a JsonError handed to
\* the handler and a false return value: a call that does not succeed has
\* reported an error, and no exception of another kind leaves the call.
C26_OnlyJsonError ==
    /\ abort = "" /\ pc # "aborted"
    /\ (CallEnded /\ ~result) => Events(LastLog, "error") # {}


(***************************************************************************)
(* The identity of the objects written.                                    *)
(***************************************************************************)
\* C27: with sharing on, "@N" is written for an object only if that very
\* object was written before in brace form with "@id" N, one object has one
\* brace form, and two objects never have the same id, also when one is
\* held by value as the first member of the other.
C27_OneObjectOneId ==
    (prog = "test" /\ js.sharing_ /\ pc \in {"write1", "written"}) =>
        /\ \A i \in Events(wlog, "ref") :
              \A j \in Events(wlog, "brace") : wlog[j].id = wlog[i].id => wlog[j].key = wlog[i].key
        /\ \A i, j \in Events(wlog, "brace") :
              (wlog[i].key = wlog[j].key) <=> (wlog[i].id = wlog[j].id)


(***************************************************************************)
(* The class of the objects read.                                          *)
(***************************************************************************)
\* C28: the object bound to a pointer is an instance of the class of the
\* pointer and of the class pinned for it: no pointer is bound to an object
\* of another class and no member is read with the descriptor of a class
\* that the object is not an instance of, every object whose brace form was
\* read to its end is an instance of its pinned class, and an "@class" that
\* names a registered class unrelated to the class of the pointer fails the
\* read.
C28_InstanceOfPinned ==
    /\ ~ub
    /\ \A i \in Events(rlog, "postread") : isa(heap[rlog[i].key].cls, rlog[i].s)
    /\ DocReadInto(c_A, UnrelatedDoc) => pc = "done" /\ ~result


(***************************************************************************)
(* The hooks.                                                              *)
(***************************************************************************)
\* the events e of the log about the object key
EventsOf(log, e, key) == {i \in Events(log, e) : log[i].key = key}

\* the hook of every object created between the creation of an object and
\* its own hook has run before that hook
NestedHooksFirst(log) ==
    \A a, b \in Events(log, "create") : \A h \in EventsOf(log, "postread", log[a].key) :
        (a < b /\ b < h) => \E g \in EventsOf(log, "postread", log[b].key) : g < h

\* the output ends with the closing brace of an object, the two newlines
\* of the end of the document aside
EndsWithBrace(out, ended) ==
    LET n == IF ended THEN Len(out) - 2 ELSE Len(out)
    IN  n >= 1 /\ out[n] = "}"

\* the step has added the event e at the end of the log
Added(log, log1, e) == log1 # log /\ log1 # <<>> /\ log1[Len(log1)].e = e

FatalAdded(log, log1) == Added(log, log1, "error") /\ log1[Len(log1)].key = 1

\* the last pair that readLine has returned
LastPair(log) ==
    log[CHOOSE i \in Events(log, "pair") : \A j \in Events(log, "pair") : i >= j]

\* C24: the post-read hook runs once for each object read in brace form,
\* when its closing brace is read, after its members and after the hooks
\* of the objects nested in it; the post-write hook runs once for each
\* brace form written, right after the closing brace; no hook runs for a
\* reference "@N" nor in a step that a fatal error ends.
C24_HooksOnce ==
    [][/\ \A key \in 1..Len(heap') :
             /\ Cardinality(EventsOf(rlog', "postread", key)) <= 1
             /\ Cardinality(EventsOf(wlog', "postwrite", key))
                    <= Cardinality(EventsOf(wlog', "brace", key))
       /\ NestedHooksFirst(rlog')
       /\ Added(rlog, rlog', "postread") =>
             /\ Len(stack') = Len(stack) - 1
             /\ LastPair(rlog') = Event("pair", Len(stack), 0, <<RBrace, <<>>>>)
       /\ Added(wlog, wlog', "postwrite") =>
             /\ Len(stack') = Len(stack) - 1
             /\ EndsWithBrace(js'.out_, stack' = <<>>)
       /\ (pc = "read" /\ FatalAdded(rlog, rlog')) =>
             Events(rlog', "postread") = Events(rlog, "postread")
       /\ (pc \in {"write1", "write2"} /\ FatalAdded(wlog, wlog')) =>
             Events(wlog', "postwrite") = Events(wlog, "postwrite")
       /\ (pc = "read" /\ stack' = <<>> /\ result') =>
             \A i \in Events(rlog', "create") :
                 Cardinality(EventsOf(rlog', "postread", rlog'[i].key)) = 1
       /\ (pc \in {"write1", "write2"} /\ stack' = <<>> /\ result') =>
             \A key \in 1..Len(heap') :
                 Cardinality(EventsOf(wlog', "postwrite", key))
                     = Cardinality(EventsOf(wlog', "brace", key))
      ]_vars


(***************************************************************************)
(* The separators of the output.                                           *)
(***************************************************************************)
\* the place of the last character before i that is not a space, 0 if
\* there is none, and of the first one after i, Len(out) + 1 if none
InkBefore(out, i) ==
    LET S == {j \in 1..(i - 1) : ~isspace(out[j])}
    IN  IF S = {} THEN 0 ELSE CHOOSE j \in S : \A k \in S : k <= j

InkAfter(out, i) ==
    LET S == {j \in (i + 1)..Len(out) : ~isspace(out[j])}
    IN  IF S = {} THEN Len(out) + 1 ELSE CHOOSE j \in S : \A k \in S : k >= j

\* the line that ends at i and the line that follows are separated as in
\* JSON: a comma if and only if a member or an item comes next, none after
\* an opening brace or bracket, none before a closing one
SeparatedAt(out, i) ==
    LET p == InkBefore(out, i)
        q == InkAfter(out, i)
    IN  (p >= 1 /\ q <= Len(out)) =>
            IF out[q] \in {"}", "]"} THEN out[p] # ","
            ELSE IF out[p] \in {"{", "["} THEN TRUE
            ELSE out[p] = "," /\ out[InkBefore(out, p)] # ","

\* C23: in the output consecutive members or items are separated by one
\* comma and no comma follows the last one, also in an object that has
\* "@class" or "@id" and no data member.  (The strings of the graphs hold
\* no comma, brace, bracket or newline.)
C23_Separators ==
    (prog = "test" /\ pc \in {"written", "done"}) =>
        LET out == IF pc = "written" THEN file1 ELSE file2
        IN  \A i \in 1..Len(out) : out[i] = "\n" => SeparatedAt(out, i)


(***************************************************************************)
(* Input that ends early.                                                  *)
(***************************************************************************)
\* the number of braces and brackets of doc[i..] left open, outside quoted
\* strings, d being the number open before i
RECURSIVE OpenDepth(_, _, _, _)
OpenDepth(doc, i, quoted, d) ==
    IF i > Len(doc) THEN d
    ELSE IF doc[i] = "\"" THEN OpenDepth(doc, i + 1, ~quoted, d)
    ELSE IF quoted THEN OpenDepth(doc, i + 1, quoted, d)
    ELSE IF doc[i] \in {"{", "["} THEN OpenDepth(doc, i + 1, quoted, d + 1)
    ELSE IF doc[i] \in {"}", "]"} THEN OpenDepth(doc, i + 1, quoted, d - 1)
    ELSE OpenDepth(doc, i + 1, quoted, d)

Unclosed(doc) == OpenDepth(doc, 1, FALSE, 0) > 0

\* C25: a read whose input ends before every opened brace and bracket is
\* closed does not return success: it ends with a fatal error
C25_UnclosedFails ==
    (prog = "readdoc" /\ pc = "done" /\ Unclosed(file1)) =>
        /\ ~result
        /\ \E i \in Events(rlog, "error") : rlog[i].key = 1


(***************************************************************************)
(* Quoted strings that look like structure.                                *)
(***************************************************************************)
\* C29: a quoted string "]" or "}" is read as a string: a list of strings
\* that was written is read back with the same elements, and a member
\* named "}" does not end the object, the members after it are read
C29_QuotedNotStructural ==
    /\ (prog = "scalar" /\ root.v.k = "strings" /\ pc = "done") =>
           (result /\ target = root.v)
    /\ (prog = "readdoc" /\ root.cls = c_P /\ file1 = BraceNameDoc /\ pc = "done") =>
           (copy # 0 /\ heap[copy].f[n_type] = StringV(s_b))


(***************************************************************************)
(* Indentation.                                                            *)
(***************************************************************************)
\* C30: for every count given to setIndent and every depth, the
\* indentation is taken from inside tabs_: level_ * indent_ does not exceed
\* the length of tabs_ while a write goes on, and no write reads past it
C30_IndentWithinBuffer ==
    prog = "indent" =>
        /\ ~ub
        /\ pc = "write1" => js.level_ * js.indent_ <= js.tabs_


(***************************************************************************)
(* Shared ownership.                                                       *)
(***************************************************************************)
\* a container of std::shared_ptr<A> of the kind k is read
SharedRead(k) == prog = "readdoc" /\ root.cls = NoClass /\ root.v.k = k

\* C21: the handle that an identity slot records is live whenever a
\* reference copies from it, in a vector, a list and a set, and the
\* pointers that refer to one object share one control block
C21_SharedHandles ==
    (\E k \in SharedKinds : SharedRead(k)) =>
        /\ ~ub
        /\ (pc = "done" /\ result) =>
               \A i, j \in DOMAIN target.l :
                   (target.l[i].obj # 0 /\ target.l[i].obj = target.l[j].obj) =>
                       target.l[i].ctl = target.l[j].ctl

\* C22: when a vector of shared pointers has been read, the slot of every
\* element first made in it records the final address of the element,
\* for one such element as for several
C22_VectorEndFixes ==
    (SharedRead("vector") /\ pc = "done" /\ result /\ ~ub) =>
        \A id \in DOMAIN js.shared_ :
            /\ live(target, js.shared_[id])
            /\ target.l[js.shared_[id].i].obj = objectAt(heap, js.id_to_object_[id], c_A)

=============================================================================
